---------------------------- MODULE Spec2Model ----------------------------
(***************************************************************************)
(* Model of the search service (src/services/search-service/main.py):      *)
(* the InvertedIndex, AutocompleteTrie and RecommendationEngine classes,   *)
(* the module-level stores and the request handlers built on them.         *)
(*                                                                         *)
(* Text is a sequence of one-character strings, so that lower-casing and   *)
(* the tokenizer's regular expression are computed, not assumed.           *)
(* Python's None is the empty set and a supplied value v is {v}.           *)
(* Floating-point scores are fixed-point integers: the TF-IDF score in     *)
(* units of 1/50400000 (TfTable, idf_of), the relevance score in halves.   *)
(***************************************************************************)
EXTENDS Integers, Sequences, FiniteSets, TLC

VARIABLES
    inverted_index,         \* InvertedIndex: [index, doc_freq, total_docs, doc_lengths]
    autocomplete_trie,      \* AutocompleteTrie: node path -> TrieNode
    bloom_filter,           \* BloomFilter: [ids, at_capacity]
    recommendation_engine,  \* RecommendationEngine: [view_matrix, category_matrix, price_ranges]
    products_store,         \* product_id -> product dict
    search_analytics,       \* the lower-cased queries in the order first searched, each with its count
    ret,                    \* the last call, its arguments and what it returned
    h_calls,                \* history: number of calls made so far
    h_log,                  \* history: the add_document just made (with the index before it) and
                            \*          whether remove_document of the same id followed it at once
    h_docs,                 \* history: doc_id -> the text and categories it was last added with
    h_inserted,             \* history: word -> the sum of the frequencies it was passed to
                            \*          AutocompleteTrie.insert with since the last reset
    h_replaced,             \* history: the last index_product that replaced a stored product
    h_indexed,              \* history: the ids passed to index_product, ever and since the
                            \*          last reset
    coroutines,             \* event loop of the search service: the handler calls in
                            \*          flight, each with the statements it has executed
    running,                \* event loop: the coroutine that holds the loop, 0 when none
    notifications_history,  \* notification service: notification_id -> status record
    failed_notifications,   \* notification service: the deque of failed deliveries
    notification_stats,     \* notification service: counter name -> count
    background_tasks,       \* notification service: the process_* tasks queued or suspended
    notification_ids        \* notification service: the number of ids generated so far

vars == <<inverted_index, autocomplete_trie, bloom_filter, recommendation_engine,
          products_store, search_analytics, ret, h_calls, h_log, h_docs,
          h_inserted, h_replaced, h_indexed, coroutines, running,
          notifications_history, failed_notifications, notification_stats,
          background_tasks, notification_ids>>

\* the event loop of the search service, which the specifications that run each
\* handler as one step leave alone
loop_vars == <<coroutines, running>>

\* the state of the notification service
notification_vars == <<notifications_history, failed_notifications, notification_stats,
                       background_tasks, notification_ids>>

-----------------------------------------------------------------------------
(* Bounds of the model.                                                    *)

\* calls (of a method or of a handler) in one behaviour
MaxCalls == 3

\* the number of notifications a behaviour creates
MaxNotifications == 2

-----------------------------------------------------------------------------
(* Characters and strings.                                                 *)

Uppers == <<"A","B","C","D","E","F","G","H","I","J","K","L","M",
            "N","O","P","Q","R","S","T","U","V","W","X","Y","Z">>

Lowers == <<"a","b","c","d","e","f","g","h","i","j","k","l","m",
            "n","o","p","q","r","s","t","u","v","w","x","y","z">>

Digits == <<"0","1","2","3","4","5","6","7","8","9">>

\* the characters str.strip() removes that the model's texts use
Whitespace == {" "}

Range(s) == {s[i] : i \in 1..Len(s)}

Min(a, b) == IF a < b THEN a ELSE b

\* dict.get(key, default)
Get(f, k, default) == IF k \in DOMAIN f THEN f[k] ELSE default

UpperSet == Range(Uppers)

LowerSet == Range(Lowers)

DigitSet == Range(Digits)

\* str.lower() of one character
\* (LowerOf is the table of it for the upper-case letters)
LowerOf == [c \in UpperSet |-> Lowers[CHOOSE i \in 1..Len(Uppers) : Uppers[i] = c]]

lower_char(c) == IF c \in UpperSet THEN LowerOf[c] ELSE c

\* str.lower()
lower(s) == [i \in 1..Len(s) |-> lower_char(s[i])]

\* not s.strip()
strip_is_empty(s) == \A i \in 1..Len(s) : s[i] \in Whitespace

LetterSet == LowerSet \cup UpperSet

AlnumSet == LetterSet \cup DigitSet

WordCharSet == AlnumSet \cup {"_"}

\* [a-zA-Z]
IsLetter(c) == c \in LetterSet

\* [a-zA-Z0-9]
IsAlnum(c) == c \in AlnumSet

\* the regular expression's \w
IsWordChar(c) == c \in WordCharSet

\* the code points of the characters the model's texts use, for str comparison
CodePoint(c) ==
    IF c \in DigitSet THEN 48 + (CHOOSE i \in 1..10 : Digits[i] = c) - 1
    ELSE IF c \in UpperSet THEN 65 + (CHOOSE i \in 1..26 : Uppers[i] = c) - 1
    ELSE IF c \in LowerSet THEN 97 + (CHOOSE i \in 1..26 : Lowers[i] = c) - 1
    ELSE IF c = "_" THEN 95
    ELSE IF c = ":" THEN 58
    ELSE 32

\* a < b on str
RECURSIVE StrLess(_, _)
StrLess(a, b) ==
    IF b = <<>> THEN FALSE
    ELSE IF a = <<>> THEN TRUE
    ELSE IF CodePoint(a[1]) # CodePoint(b[1]) THEN CodePoint(a[1]) < CodePoint(b[1])
    ELSE StrLess(Tail(a), Tail(b))

\* s.startswith(p)
StartsWith(s, p) == Len(p) <= Len(s) /\ SubSeq(s, 1, Len(p)) = p

-----------------------------------------------------------------------------
(* The inputs the model draws from.                                        *)

ProductIds == {"P1", "P2", "P3"}

RedShoes == <<"R","e","d"," ","S","h","o","e","s">>

BlueBoots == <<"B","l","u","e"," ","B","o","o","t","s">>

Bag == <<"B","a","g">>

GoTitle == <<"G","o"," ","2","x"," ","a","_","b">>

RedText == <<"r","e","d">>

Red1Text == <<"R","e","d","1"," ","r","e","d">>

Shoes == <<"S","h","o","e","s">>

ShoesUpper == <<"S","H","O","E","S">>

Bags == <<"B","a","g","s">>

\* product bodies: everything of a Product but its product_id
Catalog ==
    { [title |-> RedShoes, description |-> <<>>, categories |-> <<Shoes>>,
       price_cents |-> 4999, stock |-> 3],
      [title |-> BlueBoots, description |-> <<>>, categories |-> <<Shoes>>,
       price_cents |-> 8999, stock |-> 1],
      [title |-> Bag, description |-> RedText, categories |-> <<>>,
       price_cents |-> 5000, stock |-> 0],
      [title |-> GoTitle, description |-> Red1Text, categories |-> <<Bags, ShoesUpper>>,
       price_cents |-> 0, stock |-> 0] }

\* f"{product.title} {product.description}"
search_text(product) == product.title \o <<" ">> \o product.description

Queries ==
    { <<"r","e","d">>,
      <<"s","h","o","e","s">>,
      <<"R","e","d"," ","s","h","o","e","s">>,
      <<" ">>,
      <<"c","a","t","e","g","o","r","y",":","s","h","o","e","s">> }

Limits == {1, 2, 3}

\* the category filters of a search: none, or one in a case that is not the catalog's
CategoryFilters == { {}, {<<"s","h","o","e","s">>} }

MinPrices == { {}, {0}, {6000} }

MaxPrices == { {}, {0}, {5000} }

SearchLimits == {1, 3}

\* the search requests: every query without a filter, at either limit when it is not
\* blank, and at the larger limit one query with each filter: "red" with the
\* category, "shoes" with a minimum above some prices, "red" with the maximum 0
SearchRequests ==
    {r \in [q : Queries, limit : SearchLimits, category : CategoryFilters,
            min_price : MinPrices, max_price : MaxPrices] :
       LET filters == (IF r.category # {} THEN 1 ELSE 0)
                      + (IF r.min_price # {} THEN 1 ELSE 0)
                      + (IF r.max_price # {} THEN 1 ELSE 0)
       IN  \/ filters = 0 /\ (r.limit = 3 \/ ~strip_is_empty(r.q))
           \/ /\ filters = 1 /\ r.limit = 3
              /\ \/ r.category # {} /\ r.q = <<"r","e","d">>
                 \/ r.min_price = {6000} /\ r.q = <<"s","h","o","e","s">>
                 \/ r.max_price = {0} /\ r.q = <<"r","e","d">>}

AutocompleteQueries ==
    { <<"s","h">>, <<"S">>, <<" ","b"," ">>, <<"B","O">> }

\* the autocomplete requests: every query at the larger limit, one at the smaller too
AutocompleteRequests ==
    {r \in [q : AutocompleteQueries, limit : SearchLimits] :
       r.limit = 3 \/ r.q = <<"s","h">>}

Words ==
    { <<"c","a","b">>, <<"c","a","a">>, <<"C","a">>, <<"c","a">>, <<"b">> }

Frequencies == {1, 2}

\* the session_products of a view: none, two products seen once each, and one with
\* a repeated product and the product P1 itself
Sessions ==
    { <<>>, <<"P3", "P2">>, <<"P1", "P2", "P2">> }

Prefixes ==
    { <<"C">>, <<"c","a">>, <<>>, <<"x">>, <<"c","a","b">> }

-----------------------------------------------------------------------------
(* InvertedIndex.tokenize: re.findall(r'\b[a-zA-Z][a-zA-Z0-9]*\b', lower). *)
(* A match starts at a word boundary and ends at one, so it is a whole     *)
(* maximal run of \w characters; the run matches when it starts with a     *)
(* letter and holds letters and digits only.                               *)

\* the maximal runs of \w characters of s[i..], `start` being where the run that
\* holds s[i-1] began (0 when s[i-1] is in no run)
RECURSIVE word_runs(_, _, _)
word_runs(s, i, start) ==
    LET done == IF start = 0 THEN <<>> ELSE <<SubSeq(s, start, i - 1)>>
    IN  IF i > Len(s) THEN done
        ELSE IF IsWordChar(s[i]) THEN word_runs(s, i + 1, IF start = 0 THEN i ELSE start)
        ELSE done \o word_runs(s, i + 1, 0)

IsToken(run) == IsLetter(run[1]) /\ \A i \in 1..Len(run) : IsAlnum(run[i])

\* re.findall(r'\b[a-zA-Z][a-zA-Z0-9]*\b', text.lower())
findall_tokens(text) == SelectSeq(word_runs(lower(text), 1, 0), IsToken)

\* the texts that are tokenized: titles, descriptions, search texts and queries
Texts ==
    Queries \cup {p.title : p \in Catalog} \cup {p.description : p \in Catalog}
    \cup {search_text(p) : p \in Catalog}

\* findall_tokens of each of them, computed once
TokensOfTexts == [text \in Texts |-> findall_tokens(text)]

\* InvertedIndex.tokenize
tokenize(text) ==
    IF text = <<>> THEN <<>>
    ELSE IF text \in Texts THEN TokensOfTexts[text]
    ELSE findall_tokens(text)

CategoryPrefix == <<"c","a","t","e","g","o","r","y",":">>

\* f"category:{cat.lower()}"
category_token(cat) == CategoryPrefix \o lower(cat)

\* the token list add_document builds
document_tokens(text, categories) ==
    tokenize(text) \o
    (IF categories # <<>>
     THEN [i \in 1..Len(categories) |-> category_token(categories[i])]
     ELSE <<>>)

-----------------------------------------------------------------------------
(* InvertedIndex.                                                          *)

EmptyFunction == [x \in {} |-> 0]

\* InvertedIndex.__init__
NewInvertedIndex ==
    [index |-> EmptyFunction, doc_freq |-> EmptyFunction,
     total_docs |-> 0, doc_lengths |-> EmptyFunction]

\* del d[k]
Del(f, ks) == [k \in DOMAIN f \ ks |-> f[k]]

\* remove_document without its "clean up empty entries" loop
remove_document_keeping_empty(ii, doc_id) ==
    IF doc_id \notin DOMAIN ii.doc_lengths THEN ii
    ELSE
      LET hit == {t \in DOMAIN ii.index : doc_id \in ii.index[t]}
          lengths1 == Del(ii.doc_lengths, {doc_id})
      IN  [index |-> [t \in DOMAIN ii.index |-> ii.index[t] \ {doc_id}],
           doc_freq |-> [t \in DOMAIN ii.doc_freq \cup hit |->
                           IF t \in hit THEN Get(ii.doc_freq, t, 0) - 1 ELSE ii.doc_freq[t]],
           total_docs |-> Cardinality(DOMAIN lengths1),
           doc_lengths |-> lengths1]

\* remove_document that deletes the posting sets it empties but not their doc_freq entries
remove_document_keeping_freq(ii, doc_id) ==
    IF doc_id \notin DOMAIN ii.doc_lengths THEN ii
    ELSE
      LET hit == {t \in DOMAIN ii.index : doc_id \in ii.index[t]}
          index1 == [t \in DOMAIN ii.index |-> ii.index[t] \ {doc_id}]
          lengths1 == Del(ii.doc_lengths, {doc_id})
      IN  [index |-> Del(index1, {t \in hit : index1[t] = {}}),
           doc_freq |-> [t \in DOMAIN ii.doc_freq \cup hit |->
                           IF t \in hit THEN Get(ii.doc_freq, t, 0) - 1 ELSE ii.doc_freq[t]],
           total_docs |-> Cardinality(DOMAIN lengths1),
           doc_lengths |-> lengths1]

remove_document(ii, doc_id) ==
    IF doc_id \notin DOMAIN ii.doc_lengths THEN ii
    ELSE
      LET hit == {t \in DOMAIN ii.index : doc_id \in ii.index[t]}
          index1 == [t \in DOMAIN ii.index |-> ii.index[t] \ {doc_id}]
          freq1 == [t \in DOMAIN ii.doc_freq \cup hit |->
                      IF t \in hit THEN Get(ii.doc_freq, t, 0) - 1 ELSE ii.doc_freq[t]]
          tokens_to_remove == {t \in hit : index1[t] = {}}
          lengths1 == Del(ii.doc_lengths, {doc_id})
      IN  [index |-> Del(index1, tokens_to_remove),
           doc_freq |-> Del(freq1, tokens_to_remove),
           total_docs |-> Cardinality(DOMAIN lengths1),
           doc_lengths |-> lengths1]

add_document(ii, doc_id, text, categories) ==
    LET tokens == document_tokens(text, categories)
        i1 == IF doc_id \in DOMAIN ii.doc_lengths THEN remove_document(ii, doc_id) ELSE ii
        unique_tokens == Range(tokens)
        lengths1 == [d \in DOMAIN i1.doc_lengths \cup {doc_id} |->
                       IF d = doc_id THEN Len(tokens) ELSE i1.doc_lengths[d]]
        fresh == {t \in unique_tokens : doc_id \notin Get(i1.index, t, {})}
    IN  [index |-> [t \in DOMAIN i1.index \cup unique_tokens |->
                      IF t \in fresh THEN Get(i1.index, t, {}) \cup {doc_id}
                      ELSE Get(i1.index, t, {})],
         doc_freq |-> [t \in DOMAIN i1.doc_freq \cup fresh |->
                         IF t \in fresh THEN Get(i1.doc_freq, t, 0) + 1
                         ELSE i1.doc_freq[t]],
         total_docs |-> Cardinality(DOMAIN lengths1),
         doc_lengths |-> lengths1]


(* Scores.  tf = 1.0 / sqrt(length) and idf = log(total_docs / df) are     *)
(* floats; the model keeps them as integers, tf in units of 1/5040 and idf *)
(* in units of 1/10000, rounded to nearest.  5040 is a multiple of 2, 3    *)
(* and 4 and the idf entries add up as the logarithms do, so that scores   *)
(* that are equal as floats are equal here.                                *)

\* round(5040 / sqrt(n)) for n = 1..16
TfTable == <<5040, 3564, 2910, 2520, 2254, 2058, 1905, 1782,
             1680, 1594, 1520, 1455, 1398, 1347, 1301, 1260>>

\* 1.0 / math.sqrt(n)
tf_of(n) == TfTable[n]

\* math.log(total_docs / df), for the catalogs the model builds
idf_of(total_docs, df) ==
    CASE total_docs = df -> 0
      [] total_docs = 2 * df -> 6931
      [] total_docs = 3 * df -> 10986
      [] total_docs = 4 * df -> 13863
      [] 2 * total_docs = 3 * df -> 4055
      [] 3 * total_docs = 4 * df -> 2877

\* list.sort(key=..., reverse=True): descending by key, equal keys keep their order
StableSortDesc(seq, key) ==
    LET n == Len(seq)
        pos(i) == 1 + Cardinality({j \in 1..n :
                        key[j] > key[i] \/ (key[j] = key[i] /\ j < i)})
    IN  [p \in 1..n |-> seq[CHOOSE i \in 1..n : pos(i) = p]]

\* seq[:limit], limit >= 0
Take(seq, limit) == SubSeq(seq, 1, Min(limit, Len(seq)))

\* the doc_scores dict of InvertedIndex.search: keys in insertion order, and the score
\* of each.  `order` is the order in which Python iterates a set of these ids.
RECURSIVE doc_scores(_, _, _, _, _)
doc_scores(ii, tokens, i, order, acc) ==
    IF i > Len(tokens) THEN acc
    ELSE IF tokens[i] \in DOMAIN ii.index
    THEN LET token == tokens[i]
             df == ii.doc_freq[token]
             idf == IF df > 0 THEN idf_of(ii.total_docs, df) ELSE 0
             docs == ii.index[token]
             keys == acc.keys \o
                     SelectSeq(order, LAMBDA d : d \in docs /\ d \notin Range(acc.keys))
             score == [d \in Range(keys) |->
                         Get(acc.score, d, 0) +
                         (IF d \in docs THEN tf_of(Get(ii.doc_lengths, d, 1)) * idf ELSE 0)]
         IN  doc_scores(ii, tokens, i + 1, order, [keys |-> keys, score |-> score])
    ELSE doc_scores(ii, tokens, i + 1, order, acc)

\* InvertedIndex.search without the final results[:limit]
search_without_limit(ii, query, limit, order) ==
    IF strip_is_empty(query) THEN <<>>
    ELSE LET tokens == tokenize(query)
         IN  IF tokens = <<>> THEN <<>>
             ELSE LET ds == doc_scores(ii, tokens, 1, order,
                                       [keys |-> <<>>, score |-> EmptyFunction])
                      results == [k \in 1..Len(ds.keys) |-> <<ds.keys[k], ds.score[ds.keys[k]]>>]
                  IN  StableSortDesc(results, [k \in 1..Len(results) |-> results[k][2]])

\* InvertedIndex.search: a sequence of <<doc_id, score>>
search(ii, query, limit, order) ==
    IF strip_is_empty(query) THEN <<>>
    ELSE LET tokens == tokenize(query)
         IN  IF tokens = <<>> THEN <<>>
             ELSE LET ds == doc_scores(ii, tokens, 1, order,
                                       [keys |-> <<>>, score |-> EmptyFunction])
                      results == [k \in 1..Len(ds.keys) |-> <<ds.keys[k], ds.score[ds.keys[k]]>>]
                      sorted == StableSortDesc(results,
                                               [k \in 1..Len(results) |-> results[k][2]])
                  IN  Take(sorted, limit)

\* What InvertedIndex.search leaves in the index.  index and doc_freq are defaultdicts:
\* `token in self.index` creates nothing, self.doc_freq[token] is read for the tokens
\* found in index only (and would create a 0 entry for one doc_freq lacks), and
\* doc_lengths.get creates nothing.
\* a search that reads self.index[token] without asking `token in self.index` first
index_after_unguarded_search(ii, query) ==
    IF strip_is_empty(query) THEN ii
    ELSE [ii EXCEPT !.index = [t \in DOMAIN ii.index \cup Range(tokenize(query)) |->
                                 Get(ii.index, t, {})]]

index_after_search(ii, query) ==
    IF strip_is_empty(query) THEN ii
    ELSE LET found == Range(tokenize(query)) \cap DOMAIN ii.index
         IN  [ii EXCEPT !.doc_freq = [t \in DOMAIN ii.doc_freq \cup found |->
                                         Get(ii.doc_freq, t, 0)]]

\* the orders in which Python can iterate the set S (a set of str iterates in hash order)
Orders(S) == {o \in [1..Cardinality(S) -> S] : Range(o) = S}

\* the documents InvertedIndex.search iterates over: those in a posting set of a query token
candidates(ii, query) ==
    UNION {ii.index[t] : t \in Range(tokenize(query)) \cap DOMAIN ii.index}

-----------------------------------------------------------------------------
(* AutocompleteTrie.  The trie is a function from the path of a node (the  *)
(* characters from the root to it) to the node; a node's children are kept *)
(* in the order they were created, the order in which a dict iterates.     *)

\* TrieNode.__init__
NewTrieNode == [children |-> <<>>, is_word |-> FALSE, frequency |-> 0]

\* AutocompleteTrie.__init__: the root node, at the empty path
NewAutocompleteTrie == (<<>> :> NewTrieNode)

\* the loop of insert: from the node at word[1..i-1], create the missing nodes down to word
RECURSIVE descend(_, _, _)
descend(trie, word, i) ==
    IF i > Len(word) THEN trie
    ELSE LET node == SubSeq(word, 1, i - 1)
             child == SubSeq(word, 1, i)
         IN  IF word[i] \notin Range(trie[node].children)
             THEN descend([p \in DOMAIN trie \cup {child} |->
                             IF p = child THEN NewTrieNode
                             ELSE IF p = node
                                  THEN [trie[p] EXCEPT !.children = Append(@, word[i])]
                                  ELSE trie[p]],
                          word, i + 1)
             ELSE descend(trie, word, i + 1)

\* an insert that sets the frequency of the word instead of adding to it
insert_setting_frequency(trie, word, frequency) ==
    LET w == lower(word)
        t1 == descend(trie, w, 1)
    IN  [t1 EXCEPT ![w] = [@ EXCEPT !.is_word = TRUE, !.frequency = frequency]]

insert(trie, word, frequency) ==
    LET w == lower(word)
        t1 == descend(trie, w, 1)
    IN  [t1 EXCEPT ![w] = [@ EXCEPT !.is_word = TRUE, !.frequency = @ + frequency]]

RECURSIVE collect_words(_, _)
RECURSIVE collect_children(_, _, _)

\* _collect_words that appends every node it visits, whatever its is_word
collect_words_of_all_nodes(trie, prefix) ==
    <<<<prefix, trie[prefix].frequency>>>> \o collect_children(trie, prefix, 1)

\* _collect_words: the <<word, frequency>> pairs at and below the node at `prefix`,
\* in depth-first order
collect_words(trie, prefix) ==
    (IF trie[prefix].is_word THEN <<<<prefix, trie[prefix].frequency>>>> ELSE <<>>)
    \o collect_children(trie, prefix, 1)

\* the loop of _collect_words over node.children.items(), from the k-th child on
collect_children(trie, prefix, k) ==
    IF k > Len(trie[prefix].children) THEN <<>>
    ELSE collect_words(trie, Append(prefix, trie[prefix].children[k]))
         \o collect_children(trie, prefix, k + 1)

\* the descent of search_prefix: whether every character of prefix[i..] has a child node
RECURSIVE has_path(_, _, _)
has_path(trie, prefix, i) ==
    IF i > Len(prefix) THEN TRUE
    ELSE IF prefix[i] \notin Range(trie[SubSeq(prefix, 1, i - 1)].children) THEN FALSE
    ELSE has_path(trie, prefix, i + 1)

search_prefix(trie, prefix, limit) ==
    IF prefix = <<>> THEN <<>>
    ELSE LET p == lower(prefix)
         IN  IF ~has_path(trie, p, 1) THEN <<>>
             ELSE LET suggestions == collect_words(trie, p)
                      sorted == StableSortDesc(suggestions,
                                    [k \in 1..Len(suggestions) |-> suggestions[k][2]])
                      top == Take(sorted, limit)
                  IN  [k \in 1..Len(top) |-> top[k][1]]

-----------------------------------------------------------------------------
(* RecommendationEngine.  view_matrix[id] is a Counter: a sequence of       *)
(* <<other_id, count>> in the order the keys were first counted, which is  *)
(* the order a dict iterates in.                                           *)

\* RecommendationEngine.__init__
NewRecommendationEngine ==
    [view_matrix |-> EmptyFunction, category_matrix |-> EmptyFunction,
     price_ranges |-> EmptyFunction]

\* a price range whose cutoffs belong to the lower bucket
price_range_inclusive(price_cents) ==
    IF price_cents <= 5000 THEN "0-50"
    ELSE IF price_cents <= 10000 THEN "50-100"
    ELSE IF price_cents <= 20000 THEN "100-200"
    ELSE IF price_cents <= 50000 THEN "200-500"
    ELSE "500+"

\* the price range of add_product_metadata; price_cents / 100 < 50 is price_cents < 5000
price_range(price_cents) ==
    IF price_cents < 5000 THEN "0-50"
    ELSE IF price_cents < 10000 THEN "50-100"
    ELSE IF price_cents < 20000 THEN "100-200"
    ELSE IF price_cents < 50000 THEN "200-500"
    ELSE "500+"

\* RecommendationEngine.add_product_metadata
add_product_metadata(re, product_id, categories, price_cents) ==
    LET cats == {lower(categories[i]) : i \in 1..Len(categories)}
        range == price_range(price_cents)
    IN  [re EXCEPT
           !.category_matrix = [c \in DOMAIN re.category_matrix \cup cats |->
                                  IF c \in cats
                                  THEN Get(re.category_matrix, c, {}) \cup {product_id}
                                  ELSE re.category_matrix[c]],
           !.price_ranges = [r \in DOMAIN re.price_ranges \cup {range} |->
                               IF r = range
                               THEN Append(Get(re.price_ranges, r, <<>>), product_id)
                               ELSE re.price_ranges[r]]]

\* Counter[other_id] = 1: the count does not add up
increment_without_sum(counter, other_id) ==
    IF \E k \in 1..Len(counter) : counter[k][1] = other_id
    THEN counter
    ELSE Append(counter, <<other_id, 1>>)

\* Counter[other_id] += 1: a key counted for the first time goes to the end
increment(counter, other_id) ==
    IF \E k \in 1..Len(counter) : counter[k][1] = other_id
    THEN [k \in 1..Len(counter) |->
            IF counter[k][1] = other_id THEN <<other_id, counter[k][2] + 1>> ELSE counter[k]]
    ELSE Append(counter, <<other_id, 1>>)

\* self.view_matrix[product_id][other_id] += 1 for the others from the i-th on
RECURSIVE count_views(_, _, _, _)
count_views(view_matrix, product_id, others, i) ==
    IF i > Len(others) THEN view_matrix
    ELSE count_views([id \in DOMAIN view_matrix \cup {product_id} |->
                        IF id = product_id
                        THEN increment(Get(view_matrix, product_id, <<>>), others[i])
                        ELSE view_matrix[id]],
                     product_id, others, i + 1)

\* record_view without `if other_id != product_id`
record_view_counting_itself(re, product_id, session_products) ==
    [re EXCEPT !.view_matrix = count_views(re.view_matrix, product_id, session_products, 1)]

\* RecommendationEngine.record_view
record_view(re, product_id, session_products) ==
    [re EXCEPT !.view_matrix =
        count_views(re.view_matrix, product_id,
                    SelectSeq(session_products, LAMBDA other_id : other_id # product_id), 1)]

\* Counter.most_common(n), n >= 1: heapq.nlargest by count, which is the first n of the
\* items sorted by descending count, items of equal count in the order of the dict
most_common(counter, n) ==
    Take(StableSortDesc(counter, [k \in 1..Len(counter) |-> counter[k][2]]), n)

FrequentlyViewedTogether ==
    <<"f","r","e","q","u","e","n","t","l","y"," ","v","i","e","w","e","d"," ","t","o","g","e","t","h","e","r">>

SimilarProductsIn ==
    <<"s","i","m","i","l","a","r"," ","p","r","o","d","u","c","t","s"," ","i","n"," ">>

\* the fallback loop without the cut recommendations[:limit]
RECURSIVE category_fallback_without_cut(_, _, _, _, _, _)
category_fallback_without_cut(product_id, categories, i, listings, limit, acc) ==
    IF i > Len(categories) THEN acc
    ELSE LET similar_products == SelectSeq(listings[i], LAMBDA pid : pid # product_id)
             recommendations == acc.recommendations \o similar_products
         IN  IF Len(recommendations) >= limit
             THEN [recommendations |-> recommendations,
                   reason |-> SimilarProductsIn \o categories[i]]
             ELSE category_fallback_without_cut(product_id, categories, i + 1, listings,
                                                limit,
                                                [acc EXCEPT !.recommendations = recommendations])

\* the fallback loop of get_recommendations from the i-th category on; listings[i] is
\* list(self.category_matrix.get(category.lower(), set())) for the i-th category
RECURSIVE category_fallback(_, _, _, _, _, _)
category_fallback(product_id, categories, i, listings, limit, acc) ==
    IF i > Len(categories) THEN acc
    ELSE LET similar_products == SelectSeq(listings[i], LAMBDA pid : pid # product_id)
             recommendations == acc.recommendations \o similar_products
         IN  IF Len(recommendations) >= limit
             THEN [recommendations |-> Take(recommendations, limit),
                   reason |-> SimilarProductsIn \o categories[i]]
             ELSE category_fallback(product_id, categories, i + 1, listings, limit,
                                    [acc EXCEPT !.recommendations = recommendations])

\* the lists list(set) can give for the categories of the stored product: one order of
\* each category's set, chosen independently
category_listings(re, store, product_id) ==
    IF product_id \notin DOMAIN store THEN {<<>>}
    ELSE LET categories == store[product_id].categories
             members(i) == Get(re.category_matrix, lower(categories[i]), {})
         IN  {listings \in [1..Len(categories) ->
                              UNION {Orders(members(i)) : i \in 1..Len(categories)}] :
                \A i \in 1..Len(categories) : listings[i] \in Orders(members(i))}

\* RecommendationEngine.get_recommendations: [recommendations, reason]
get_recommendations(re, store, product_id, limit, listings) ==
    LET coviewed == IF product_id \in DOMAIN re.view_matrix
                    THEN most_common(re.view_matrix[product_id], limit)
                    ELSE <<>>
        collaborative ==
            IF coviewed # <<>>
            THEN [recommendations |-> [k \in 1..Len(coviewed) |-> coviewed[k][1]],
                  reason |-> FrequentlyViewedTogether]
            ELSE [recommendations |-> <<>>, reason |-> <<>>]
    IN  IF Len(collaborative.recommendations) < limit /\ product_id \in DOMAIN store
        THEN category_fallback(product_id, store[product_id].categories, 1, listings,
                               limit, collaborative)
        ELSE collaborative

\* BloomFilter(capacity=100000, error_rate=0.001): the ids added to it and whether it
\* counts more ids than its capacity.  The ids that fill a filter are ids of other
\* products than those of ProductIds; they are not kept in the state.
NewBloomFilter == [ids |-> {}, at_capacity |-> FALSE]

\* bloom_filter.add(product_id).  BloomFilter.add raises IndexError once the filter
\* counts more ids than its capacity and then adds nothing; a full filter stays full
\* until it is replaced.  filled tells whether other products have filled the filter
\* since the last modelled call.
bloom_add(filter, product_id, filled) ==
    IF filter.at_capacity \/ filled
    THEN [raised |-> TRUE, filter |-> [filter EXCEPT !.at_capacity = TRUE]]
    ELSE [raised |-> FALSE, filter |-> [filter EXCEPT !.ids = @ \cup {product_id}]]

\* the answers `product_id in bloom_filter` can give: True for an id that was added,
\* either one for an id that was not (a false positive)
bloom_contains(filter, product_id) ==
    IF product_id \in filter.ids THEN {TRUE} ELSE BOOLEAN

-----------------------------------------------------------------------------
(* calculate_relevance_score and the filters of search_products.           *)

\* calculate_relevance_score without the lower-casing of the categories
calculate_relevance_score_case_sensitive(product, query_tokens) ==
    LET title_matches == Cardinality(Range(query_tokens) \cap Range(tokenize(product.title)))
        desc_matches ==
            Cardinality(Range(query_tokens) \cap Range(tokenize(product.description)))
        category_matches == Cardinality(Range(query_tokens) \cap Range(product.categories))
    IN  (title_matches * 3 + desc_matches * 1 + category_matches * 2) * 2
        + (IF product.stock > 0 THEN 1 ELSE 0)

\* calculate_relevance_score, in halves: 3.0, 1.0 and 2.0 per match are 6, 2 and 4,
\* and the stock bonus 0.5 is 1
calculate_relevance_score(product, query_tokens) ==
    LET title_tokens == tokenize(product.title)
        desc_tokens == tokenize(product.description)
        title_matches == Cardinality(Range(query_tokens) \cap Range(title_tokens))
        desc_matches == Cardinality(Range(query_tokens) \cap Range(desc_tokens))
        categories == [i \in 1..Len(product.categories) |-> lower(product.categories[i])]
        category_matches == Cardinality(Range(query_tokens) \cap Range(categories))
    IN  (title_matches * 3 + desc_matches * 1 + category_matches * 2) * 2
        + (IF product.stock > 0 THEN 1 ELSE 0)

\* the truth value Python gives an Optional[str]: None and "" are false
truthy_str(opt) == \E v \in opt : v # <<>>

\* the truth value Python gives an Optional[int]: None and 0 are false
truthy_int(opt) == \E v \in opt : v # 0

\* the three filters of search_products: TRUE when the product is kept
passes_filters(product, category, min_price, max_price) ==
    /\ ~(/\ truthy_str(category)
          /\ \E c \in category :
               lower(c) \notin {lower(product.categories[i]) :
                                  i \in 1..Len(product.categories)})
    /\ ~(truthy_int(min_price) /\ \E v \in min_price : product.price_cents < v)
    /\ ~(truthy_int(max_price) /\ \E v \in max_price : product.price_cents > v)

\* the loop of search_products over search_results from the k-th on: skip the ids not
\* stored and the products filtered out, score the others, stop at `limit` results
RECURSIVE collect_results(_, _, _, _, _)
collect_results(store, search_results, k, req, results) ==
    IF k > Len(search_results) THEN results
    ELSE LET product_id == search_results[k][1]
         IN  IF product_id \notin DOMAIN store
             THEN collect_results(store, search_results, k + 1, req, results)
             ELSE IF ~passes_filters(store[product_id], req.category,
                                     req.min_price, req.max_price)
             THEN collect_results(store, search_results, k + 1, req, results)
             ELSE LET product == store[product_id]
                      found == Append(results,
                                 [product_id |-> product.product_id,
                                  score |-> calculate_relevance_score(product, tokenize(req.q)),
                                  price_cents |-> product.price_cents,
                                  stock |-> product.stock])
                  IN  IF Len(found) >= req.limit THEN found
                      ELSE collect_results(store, search_results, k + 1, req, found)

\* the "results" of search_products for a query that is not blank
search_products(store, ii, req, order) ==
    LET search_results == search(ii, req.q, req.limit * 2, order)
        results == collect_results(store, search_results, 1, req, <<>>)
    IN  StableSortDesc(results, [k \in 1..Len(results) |-> results[k].score])

\* s.strip()
RECURSIVE lstrip(_)
lstrip(s) == IF s # <<>> /\ s[1] \in Whitespace THEN lstrip(Tail(s)) ELSE s

RECURSIVE rstrip(_)
rstrip(s) ==
    IF s # <<>> /\ s[Len(s)] \in Whitespace THEN rstrip(SubSeq(s, 1, Len(s) - 1)) ELSE s

strip(s) == rstrip(lstrip(s))

-----------------------------------------------------------------------------
(* Initial state: the module-level objects as constructed.                 *)

NoCall == [op |-> "none"]

\* the stores of the notification service at start-up
InitNotifications ==
    /\ notifications_history = EmptyFunction
    /\ failed_notifications = <<>>
    /\ notification_stats = EmptyFunction
    /\ background_tasks = {}
    /\ notification_ids = 0

Init ==
    /\ inverted_index = NewInvertedIndex
    /\ autocomplete_trie = NewAutocompleteTrie
    /\ bloom_filter = NewBloomFilter
    /\ recommendation_engine = NewRecommendationEngine
    /\ products_store = EmptyFunction
    /\ search_analytics = <<>>
    /\ ret = NoCall
    /\ h_calls = 0
    /\ h_log = <<>>
    /\ h_docs = EmptyFunction
    /\ h_inserted = EmptyFunction
    /\ h_replaced = {}
    /\ h_indexed = [ever |-> {}, since_reset |-> {}]
    /\ coroutines = <<>>
    /\ running = 0
    /\ InitNotifications

-----------------------------------------------------------------------------
(* The InvertedIndex class on its own: add_document, remove_document and   *)
(* search called in any order.                                             *)

engine_vars == <<autocomplete_trie, bloom_filter, recommendation_engine,
                 products_store, search_analytics, h_inserted, h_replaced, h_indexed>>

AddDocument ==
    /\ h_calls < MaxCalls
    /\ \E doc_id \in ProductIds, p \in Catalog :
         /\ inverted_index' =
                add_document(inverted_index, doc_id, search_text(p), p.categories)
         /\ h_log' = <<[doc_id |-> doc_id, before |-> inverted_index, removed |-> FALSE,
                         tokens |-> Range(document_tokens(search_text(p), p.categories))]>>
         /\ h_docs' = [d \in DOMAIN h_docs \cup {doc_id} |->
                         IF d = doc_id
                         THEN [text |-> search_text(p), categories |-> p.categories]
                         ELSE h_docs[d]]
         /\ ret' = [op |-> "add_document", doc_id |-> doc_id]
    /\ h_calls' = h_calls + 1
    /\ UNCHANGED <<loop_vars, notification_vars>>
    /\ UNCHANGED engine_vars

RemoveDocument ==
    /\ h_calls < MaxCalls
    /\ \E doc_id \in ProductIds :
         /\ inverted_index' = remove_document(inverted_index, doc_id)
         /\ h_log' = IF h_log # <<>> /\ h_log[1].doc_id = doc_id /\ ~h_log[1].removed
                      THEN <<[h_log[1] EXCEPT !.removed = TRUE]>>
                      ELSE <<>>
         /\ h_docs' = Del(h_docs, {doc_id})
         /\ ret' = [op |-> "remove_document", doc_id |-> doc_id]
    /\ h_calls' = h_calls + 1
    /\ UNCHANGED <<loop_vars, notification_vars>>
    /\ UNCHANGED engine_vars

Search ==
    /\ h_calls < MaxCalls
    /\ \E query \in Queries, limit \in Limits :
       \E order \in Orders(candidates(inverted_index, query)) :
         /\ ret' = [op |-> "search", query |-> query, limit |-> limit,
                    results |-> search(inverted_index, query, limit, order)]
         /\ inverted_index' = index_after_search(inverted_index, query)
    /\ h_calls' = h_calls + 1
    /\ UNCHANGED <<loop_vars, notification_vars>>
    /\ h_log' = <<>>
    /\ UNCHANGED h_docs
    /\ UNCHANGED engine_vars

NextIndex == AddDocument \/ RemoveDocument \/ Search

SpecIndex == Init /\ [][NextIndex]_vars

-----------------------------------------------------------------------------
(* Claims about the InvertedIndex class, checked under SpecIndex.          *)

\* the tokens of the document doc_id was last added with
tokens_of(doc_id) ==
    Range(document_tokens(h_docs[doc_id].text, h_docs[doc_id].categories))

\* C1: in every reachable state of the inverted index, every token that is a key of
\* the postings map has a non-empty posting set and a doc_freq equal to its size;
\* doc_freq has no other key, so no token with doc_freq 0 exists.
C1_PostingsMatchDocFreq ==
    /\ DOMAIN inverted_index.doc_freq = DOMAIN inverted_index.index
    /\ \A t \in DOMAIN inverted_index.index :
         /\ inverted_index.index[t] # {}
         /\ inverted_index.doc_freq[t] = Cardinality(inverted_index.index[t])

\* C1 witness: a document was removed that shared a token with a document still
\* indexed (its doc_freq was decremented) and had a token of its own (deleted).
C1_Witness ==
    /\ h_log # <<>>
    /\ h_log[1].removed
    /\ \E t \in h_log[1].tokens : t \in DOMAIN inverted_index.index
    /\ \E t \in h_log[1].tokens : t \notin DOMAIN inverted_index.index

\* C3 as stated: for every id x, add_document(x, ..) followed by remove_document(x)
\* leaves postings, doc_freq, doc_lengths and total_docs as they were before the add.
C3_AddRemoveRestores ==
    (h_log # <<>> /\ h_log[1].removed) => inverted_index = h_log[1].before

\* C3 amended: the same, for an id x that was not in the index before the add.
C3_AddRemoveRestoresNewId ==
    (/\ h_log # <<>>
     /\ h_log[1].removed
     /\ h_log[1].doc_id \notin DOMAIN h_log[1].before.doc_lengths)
    => inverted_index = h_log[1].before

\* C3 witness: a new id was added to a non-empty index, sharing a token with a
\* document already there, and then removed.
C3_Witness ==
    /\ h_log # <<>>
    /\ h_log[1].removed
    /\ h_log[1].doc_id \notin DOMAIN h_log[1].before.doc_lengths
    /\ h_log[1].before.total_docs > 0
    /\ \E t \in h_log[1].tokens : t \in DOMAIN h_log[1].before.index

\* C8: search(q, k) returns at most k pairs; every returned id is a currently indexed
\* document whose tokens (text and category tokens) share a token with the tokens of q;
\* and the index has no key but the tokens of the indexed documents, so a query token
\* absent from the index has created no entry.
C8_SearchSound ==
    ret.op = "search" =>
      /\ Len(ret.results) <= ret.limit
      /\ \A k \in 1..Len(ret.results) :
           /\ ret.results[k][1] \in DOMAIN inverted_index.doc_lengths
           /\ ret.results[k][1] \in DOMAIN h_docs
           /\ Range(tokenize(ret.query)) \cap tokens_of(ret.results[k][1]) # {}
      /\ DOMAIN inverted_index.index = UNION {tokens_of(d) : d \in DOMAIN h_docs}
      /\ DOMAIN inverted_index.doc_freq = DOMAIN inverted_index.index

\* C8 witness: a search whose query has a token in the index and a token absent from
\* it, with more matching documents than the limit.
C8_Witness ==
    /\ ret.op = "search"
    /\ Len(ret.results) = ret.limit
    /\ Cardinality(candidates(inverted_index, ret.query)) > ret.limit
    /\ \E t \in Range(tokenize(ret.query)) : t \notin DOMAIN inverted_index.index

-----------------------------------------------------------------------------
(* The AutocompleteTrie class on its own: insert and search_prefix called  *)
(* in any order.                                                           *)

\* h_inserted after insert(word, frequency)
Inserted(h, word, frequency) ==
    [w \in DOMAIN h \cup {word} |-> Get(h, w, 0) + (IF w = word THEN frequency ELSE 0)]

Insert ==
    /\ h_calls < MaxCalls
    /\ \E word \in Words, frequency \in Frequencies :
         /\ autocomplete_trie' = insert(autocomplete_trie, word, frequency)
         /\ h_inserted' = Inserted(h_inserted, word, frequency)
         /\ ret' = [op |-> "insert", word |-> word, frequency |-> frequency]
    /\ h_calls' = h_calls + 1
    /\ UNCHANGED <<loop_vars, notification_vars>>
    /\ UNCHANGED <<inverted_index, bloom_filter, recommendation_engine, products_store,
                   search_analytics, h_log, h_docs, h_replaced, h_indexed>>

SearchPrefix ==
    /\ h_calls < MaxCalls
    /\ \E prefix \in Prefixes, limit \in Limits :
         ret' = [op |-> "search_prefix", prefix |-> prefix, limit |-> limit,
                 suggestions |-> search_prefix(autocomplete_trie, prefix, limit)]
    /\ h_calls' = h_calls + 1
    /\ UNCHANGED <<loop_vars, notification_vars>>
    /\ UNCHANGED <<inverted_index, autocomplete_trie, bloom_filter, recommendation_engine,
                   products_store, search_analytics, h_log, h_docs,
                   h_inserted, h_replaced, h_indexed>>

-----------------------------------------------------------------------------
(* Claims about the AutocompleteTrie class, checked under SpecTrie.        *)

\* the words at and below the node of prefix p, each a terminal node of the trie
words_below(p) == {w \in DOMAIN autocomplete_trie :
                     autocomplete_trie[w].is_word /\ StartsWith(w, p)}

\* the words of W by descending frequency, equal frequencies by ascending str order
by_frequency_then_word(W) ==
    LET rank(w) == 1 + Cardinality({v \in W :
                        \/ autocomplete_trie[v].frequency > autocomplete_trie[w].frequency
                        \/ /\ autocomplete_trie[v].frequency = autocomplete_trie[w].frequency
                           /\ StrLess(v, w)})
    IN  [k \in 1..Cardinality(W) |-> CHOOSE w \in W : rank(w) = k]

\* C9 as stated: search_prefix(p, k) returns the first k of the words below the prefix
\* node ordered by descending frequency, words of equal frequency in ascending
\* lexical order, whatever the order of the inserts.
C9_TiesInLexicalOrder ==
    (ret.op = "search_prefix" /\ ret.prefix # <<>>) =>
      ret.suggestions = Take(by_frequency_then_word(words_below(lower(ret.prefix))), ret.limit)

\* C10: every string search_prefix(p, k) returns starts with lower(p) and is the
\* lower-case form of a word inserted since the last reset; an empty prefix, or a
\* prefix that no inserted word starts with, returns the empty list.
C10_SuggestionsWereInserted ==
    ret.op = "search_prefix" =>
      /\ \A k \in 1..Len(ret.suggestions) :
           /\ StartsWith(ret.suggestions[k], lower(ret.prefix))
           /\ \E w \in DOMAIN h_inserted : lower(w) = ret.suggestions[k]
      /\ (\/ ret.prefix = <<>>
          \/ ~\E w \in DOMAIN h_inserted : StartsWith(lower(w), lower(ret.prefix)))
         => ret.suggestions = <<>>

\* C10 witness: an upper-case prefix that returned two words, one of them inserted in
\* upper case, from a trie with a non-terminal node below the prefix.
C10_Witness ==
    /\ ret.op = "search_prefix"
    /\ lower(ret.prefix) # ret.prefix
    /\ Len(ret.suggestions) >= 2
    /\ \E w \in DOMAIN h_inserted : lower(w) # w /\ lower(w) \in Range(ret.suggestions)
    /\ \E p \in DOMAIN autocomplete_trie :
         StartsWith(p, lower(ret.prefix)) /\ ~autocomplete_trie[p].is_word

-----------------------------------------------------------------------------
(* The service: its request handlers, called in any order.  The handlers   *)
(* are coroutines without an await, so each runs to its end as one step.   *)

index_vars == <<h_log, h_docs>>

\* the inserts of index_product for the title tokens from the i-th on
RECURSIVE insert_title_tokens(_, _, _)
insert_title_tokens(trie, tokens, i) ==
    IF i > Len(tokens) THEN trie
    ELSE insert_title_tokens(IF Len(tokens[i]) > 2 THEN insert(trie, tokens[i], 1) ELSE trie,
                             tokens, i + 1)

\* the inserts of index_product for the categories from the i-th on
RECURSIVE insert_categories(_, _, _)
insert_categories(trie, categories, i) ==
    IF i > Len(categories) THEN trie
    ELSE insert_categories(insert(trie, categories[i], 1), categories, i + 1)

\* h_inserted after the inserts of index_product
RECURSIVE InsertedAll(_, _, _)
InsertedAll(h, words, i) ==
    IF i > Len(words) THEN h ELSE InsertedAll(Inserted(h, words[i], 1), words, i + 1)

\* POST /api/search/index/product.  The handler stores the product, adds its id to
\* the existence filter and then fills the inverted index, the trie and the
\* recommendation engine.  When bloom_filter.add raises, the except clause answers 500
\* and what the handler did before the call, the write of the store, stays done.
IndexProduct ==
    /\ h_calls < MaxCalls
    /\ \E product_id \in ProductIds, body \in Catalog, filled \in BOOLEAN :
         LET product == [product_id |-> product_id, title |-> body.title,
                         description |-> body.description, categories |-> body.categories,
                         price_cents |-> body.price_cents, stock |-> body.stock]
             title_tokens == tokenize(product.title)
             added == bloom_add(bloom_filter, product_id, filled)
         IN  /\ products_store' = [id \in DOMAIN products_store \cup {product_id} |->
                                     IF id = product_id THEN product ELSE products_store[id]]
             /\ bloom_filter' = added.filter
             /\ h_replaced' = IF product_id \in DOMAIN products_store
                              THEN {[product_id |-> product_id,
                                     old |-> products_store[product_id]]}
                              ELSE {}
             /\ h_indexed' = [ever |-> h_indexed.ever \cup {product_id},
                               since_reset |-> h_indexed.since_reset \cup {product_id}]
             /\ IF added.raised
                THEN /\ ret' = [op |-> "index_product", status_code |-> 500,
                                detail |-> "Indexing failed", product_id |-> product_id]
                     /\ UNCHANGED <<inverted_index, autocomplete_trie,
                                    recommendation_engine, h_inserted>>
                ELSE /\ inverted_index' = add_document(inverted_index, product_id,
                                                       search_text(product),
                                                       product.categories)
                     /\ autocomplete_trie' =
                            insert_categories(insert_title_tokens(autocomplete_trie,
                                                                  title_tokens, 1),
                                              product.categories, 1)
                     /\ recommendation_engine' =
                            add_product_metadata(recommendation_engine, product_id,
                                                 product.categories, product.price_cents)
                     /\ h_inserted' =
                            InsertedAll(InsertedAll(h_inserted,
                                                    SelectSeq(title_tokens,
                                                              LAMBDA t : Len(t) > 2), 1),
                                        product.categories, 1)
                     /\ ret' = [op |-> "index_product", status |-> "indexed",
                                product_id |-> product_id]
    /\ h_calls' = h_calls + 1
    /\ UNCHANGED <<loop_vars, notification_vars>>
    /\ UNCHANGED <<search_analytics, index_vars>>

\* GET /api/search
SearchProducts ==
    /\ h_calls < MaxCalls
    /\ \E req \in SearchRequests :
         IF strip_is_empty(req.q)
         THEN /\ ret' = [op |-> "search_products", req |-> req, results |-> <<>>, total |-> 0]
              /\ UNCHANGED <<search_analytics, inverted_index>>
         ELSE \E order \in Orders(candidates(inverted_index, req.q)) :
                LET results == search_products(products_store, inverted_index, req, order)
                IN  /\ search_analytics' = increment(search_analytics, lower(req.q))
                    /\ inverted_index' = index_after_search(inverted_index, req.q)
                    /\ ret' = [op |-> "search_products", req |-> req,
                               results |-> results, total |-> Len(results)]
    /\ h_calls' = h_calls + 1
    /\ UNCHANGED <<loop_vars, notification_vars>>
    /\ UNCHANGED <<autocomplete_trie, bloom_filter, recommendation_engine, products_store,
                   h_inserted, h_replaced, h_indexed, index_vars>>

\* GET /api/search/autocomplete
Autocomplete ==
    /\ h_calls < MaxCalls
    /\ \E r \in AutocompleteRequests :
         ret' = [op |-> "autocomplete", q |-> r.q, limit |-> r.limit,
                 suggestions |-> IF Len(strip(r.q)) < 2 THEN <<>>
                                 ELSE search_prefix(autocomplete_trie, r.q, r.limit)]
    /\ h_calls' = h_calls + 1
    /\ UNCHANGED <<loop_vars, notification_vars>>
    /\ UNCHANGED <<inverted_index, autocomplete_trie, bloom_filter, recommendation_engine,
                   products_store, search_analytics, h_inserted, h_replaced, h_indexed,
                   index_vars>>

\* what a handler that only reads leaves unchanged
read_vars == <<inverted_index, autocomplete_trie, bloom_filter, recommendation_engine,
               products_store, search_analytics, h_inserted, h_replaced, h_indexed,
               index_vars>>

\* GET /api/search/recommendations/{product_id}
GetRecommendations ==
    /\ h_calls < MaxCalls
    /\ \E product_id \in ProductIds, limit \in SearchLimits :
       \E present \in bloom_contains(bloom_filter, product_id) :
         IF ~present
         THEN ret' = [op |-> "get_recommendations", product_id |-> product_id,
                      limit |-> limit, status |-> 404]
         ELSE \E listings \in category_listings(recommendation_engine, products_store,
                                                product_id) :
                LET r == get_recommendations(recommendation_engine, products_store,
                                             product_id, limit, listings)
                IN  ret' = [op |-> "get_recommendations", product_id |-> product_id,
                            limit |-> limit, status |-> 200,
                            product_ids |-> r.recommendations, reason |-> r.reason]
    /\ h_calls' = h_calls + 1
    /\ UNCHANGED <<loop_vars, notification_vars>>
    /\ UNCHANGED read_vars

\* POST /api/search/analytics/view
RecordProductView ==
    /\ h_calls < MaxCalls
    /\ \E product_id \in ProductIds, session_products \in Sessions :
         /\ recommendation_engine' =
                IF product_id # "" /\ session_products # <<>>
                THEN record_view(recommendation_engine, product_id, session_products)
                ELSE recommendation_engine
         /\ ret' = [op |-> "record_product_view", product_id |-> product_id,
                    session_products |-> session_products, status |-> "recorded"]
    /\ h_calls' = h_calls + 1
    /\ UNCHANGED <<loop_vars, notification_vars>>
    /\ UNCHANGED <<inverted_index, autocomplete_trie, bloom_filter, products_store,
                   search_analytics, h_inserted, h_replaced, h_indexed, index_vars>>

\* GET /health: the stats of the report
HealthCheck ==
    /\ h_calls < MaxCalls
    /\ ret' = [op |-> "health_check", status |-> "healthy",
               indexed_products |-> Cardinality(DOMAIN products_store),
               index_size |-> inverted_index.total_docs]
    /\ h_calls' = h_calls + 1
    /\ UNCHANGED <<loop_vars, notification_vars>>
    /\ UNCHANGED read_vars

\* the length of the top_searches list
TopSearches == 20

\* sum(search_analytics.values())
RECURSIVE total_searches(_, _)
total_searches(analytics, i) ==
    IF i > Len(analytics) THEN 0 ELSE analytics[i][2] + total_searches(analytics, i + 1)

\* GET /api/search/analytics
GetSearchAnalytics ==
    /\ h_calls < MaxCalls
    /\ ret' = [op |-> "get_search_analytics",
               top_searches |->
                   Take(StableSortDesc(search_analytics,
                                       [k \in 1..Len(search_analytics) |->
                                          search_analytics[k][2]]), TopSearches),
               total_searches |-> total_searches(search_analytics, 1),
               unique_queries |-> Len(search_analytics),
               indexed_products |-> Cardinality(DOMAIN products_store)]
    /\ h_calls' = h_calls + 1
    /\ UNCHANGED <<loop_vars, notification_vars>>
    /\ UNCHANGED read_vars

\* a dict.clear() that leaves the dict as it is
clear_nothing(d) == d

\* dict.clear()
clear(d) == EmptyFunction

\* DELETE /admin/clear
ClearAllData ==
    /\ h_calls < MaxCalls
    /\ inverted_index' = NewInvertedIndex
    /\ autocomplete_trie' = NewAutocompleteTrie
    /\ bloom_filter' = NewBloomFilter
    /\ recommendation_engine' = NewRecommendationEngine
    /\ products_store' = clear(products_store)
    /\ search_analytics' = clear(search_analytics)
    /\ ret' = [op |-> "clear_all_data", status |-> "cleared"]
    /\ h_calls' = h_calls + 1
    /\ UNCHANGED <<loop_vars, notification_vars>>
    /\ h_inserted' = EmptyFunction
    /\ h_replaced' = {}
    /\ h_indexed' = [h_indexed EXCEPT !.since_reset = {}]
    /\ UNCHANGED index_vars

Next ==
    \/ IndexProduct
    \/ SearchProducts
    \/ Autocomplete
    \/ GetRecommendations
    \/ RecordProductView
    \/ GetSearchAnalytics
    \/ HealthCheck
    \/ ClearAllData

Spec == Init /\ [][Next]_vars

\* index_product, whose filter can be full, with the health report and the reset
NextFault ==
    \/ IndexProduct
    \/ HealthCheck
    \/ ClearAllData

SpecFault == Init /\ [][NextFault]_vars

\* the AutocompleteTrie class, with the reset of clear_all_data
NextTrie == Insert \/ SearchPrefix \/ ClearAllData

SpecTrie == Init /\ [][NextTrie]_vars

-----------------------------------------------------------------------------
(* Claims about the service, checked under Spec.                           *)

\* the last call was a search whose query was not blank
Searched == ret.op = "search_products" /\ ~strip_is_empty(ret.req.q)

\* the ids of the products a search returned
result_ids == {ret.results[k].product_id : k \in 1..Len(ret.results)}

\* the tokens of the title and the description of a product
text_tokens(product) == Range(tokenize(search_text(product)))

\* the lower-cased category labels of a product
category_labels(product) ==
    {lower(product.categories[i]) : i \in 1..Len(product.categories)}

\* a product satisfies every filter a request supplies
satisfies_filters(product, req) ==
    /\ \A c \in req.category : lower(c) \in category_labels(product)
    /\ \A v \in req.min_price : product.price_cents >= v
    /\ \A v \in req.max_price : product.price_cents <= v

\* C2 as stated: after index_product for an id already indexed, the inverted index
\* holds only the new document's tokens for that id; a search none of whose tokens is
\* in the new text does not return the id (so a token of the old text only does not),
\* and a search with a token of the new text, no filter and a limit that is not below
\* the number of products returns it, also when it is the only product and the IDF
\* is 0.
C2_ReplaceSafe ==
    \A r \in h_replaced :
      LET id == r.product_id
          new == products_store[id]
          new_tokens == Range(document_tokens(search_text(new), new.categories))
      IN  /\ \A t \in DOMAIN inverted_index.index :
                id \in inverted_index.index[t] <=> t \in new_tokens
          /\ inverted_index.doc_lengths[id] =
                Len(document_tokens(search_text(new), new.categories))
          /\ Searched =>
               LET query_tokens == Range(tokenize(ret.req.q))
               IN  /\ query_tokens \cap text_tokens(new) = {} => id \notin result_ids
                   /\ (/\ query_tokens \cap text_tokens(new) # {}
                       /\ ret.req.category = {}
                       /\ ret.req.min_price = {}
                       /\ ret.req.max_price = {}
                       /\ Cardinality(DOMAIN products_store) <= ret.req.limit)
                      => id \in result_ids

\* C4 as stated: when fewer products match than `limit`, every stored product that has
\* a category whose lower-cased label is a query token, and that satisfies the
\* filters, is in the results, also when the token is in neither its title nor its
\* description.
C4_CategoryMatchesAreReturned ==
    Searched =>
      LET query_tokens == Range(tokenize(ret.req.q))
          matching == {id \in DOMAIN products_store :
                         /\ satisfies_filters(products_store[id], ret.req)
                         /\ \/ query_tokens \cap text_tokens(products_store[id]) # {}
                            \/ query_tokens \cap category_labels(products_store[id]) # {}}
      IN  Cardinality(matching) < ret.req.limit =>
            \A id \in matching :
              query_tokens \cap category_labels(products_store[id]) # {}
              => id \in result_ids

\* the products that match a query in the inverted index and that search_products
\* does not filter out
matching_and_kept(req) ==
    {id \in candidates(inverted_index, req.q) \cap DOMAIN products_store :
       passes_filters(products_store[id], req.category, req.min_price, req.max_price)}

\* C5 as stated: the search returns the top `limit` products by relevance score among
\* the matching products that pass the filters, in descending order of score: as many
\* as there are, up to `limit`, and none that is left out has a higher score than one
\* that is returned.
C5_TopByRelevance ==
    Searched =>
      LET kept == matching_and_kept(ret.req)
          relevance(id) == calculate_relevance_score(products_store[id],
                                                     tokenize(ret.req.q))
      IN  /\ Len(ret.results) = Min(ret.req.limit, Cardinality(kept))
          /\ \A k \in 1..(Len(ret.results) - 1) :
               ret.results[k].score >= ret.results[k + 1].score
          /\ \A id \in kept \ result_ids :
               \A k \in 1..Len(ret.results) : relevance(id) <= ret.results[k].score

\* C6 as stated: every product a search returns satisfies every filter supplied, for
\* every supplied value of min_price and max_price, 0 included.
C6_ResultsSatisfyFilters ==
    ret.op = "search_products" =>
      \A k \in 1..Len(ret.results) :
        satisfies_filters(products_store[ret.results[k].product_id], ret.req)

\* C7: the relevance score of a returned product is 3 per distinct query token among
\* its title tokens, 1 per distinct query token among its description tokens, 2 per
\* distinct query token that is one of its lower-cased category labels, and 0.5 when
\* stock > 0 (here in halves: 6, 2, 4 and 1); so a product that matches a title token
\* and a category and is in stock scores at least 5.5 (11 halves).
C7_RelevanceScore ==
    Searched =>
      \A k \in 1..Len(ret.results) :
        LET product == products_store[ret.results[k].product_id]
            query_tokens == Range(tokenize(ret.req.q))
            in_title == query_tokens \cap Range(tokenize(product.title))
            in_description == query_tokens \cap Range(tokenize(product.description))
            in_categories == query_tokens \cap category_labels(product)
        IN  /\ ret.results[k].score =
                 6 * Cardinality(in_title) + 2 * Cardinality(in_description)
                 + 4 * Cardinality(in_categories) + (IF product.stock > 0 THEN 1 ELSE 0)
            /\ (in_title # {} /\ in_categories # {} /\ product.stock > 0)
               => ret.results[k].score >= 11

\* C7 witness: a search returned a product in stock that matches in its title and in
\* one of its categories, and a product out of stock that matches in its description.
C7_Witness ==
    /\ Searched
    /\ \E k \in 1..Len(ret.results) :
         LET product == products_store[ret.results[k].product_id]
             query_tokens == Range(tokenize(ret.req.q))
         IN  /\ query_tokens \cap Range(tokenize(product.title)) # {}
             /\ query_tokens \cap category_labels(product) # {}
             /\ product.stock > 0
    /\ \E k \in 1..Len(ret.results) :
         LET product == products_store[ret.results[k].product_id]
         IN  /\ Range(tokenize(ret.req.q)) \cap Range(tokenize(product.description)) # {}
             /\ product.stock = 0

-----------------------------------------------------------------------------
(* Claims about the recommendations, checked under Spec.                   *)

\* a recommendation request that passed the existence filter
Recommended == ret.op = "get_recommendations" /\ ret.status = 200

\* the Counter of the co-view matrix for id, empty when it has none
partners(id) == Get(recommendation_engine.view_matrix, id, <<>>)

\* the product ids in ascending str order
SortedIds == <<"P1", "P2", "P3">>

\* the ids of a Counter by descending count, equal counts by ascending id
by_count_then_id(counter) ==
    LET ids == {counter[k][1] : k \in 1..Len(counter)}
        count(x) == counter[CHOOSE k \in 1..Len(counter) : counter[k][1] = x][2]
        place(x) == CHOOSE k \in 1..Len(SortedIds) : SortedIds[k] = x
        rank(x) == 1 + Cardinality({y \in ids :
                         count(y) > count(x) \/ (count(y) = count(x) /\ place(y) < place(x))})
    IN  [k \in 1..Cardinality(ids) |-> CHOOSE x \in ids : rank(x) = k]

\* C11 as stated: when the co-view matrix has entries for id, get_recommendations(id, k)
\* starts with the first k co-viewed partners by descending count, equal counts by
\* ascending id, whatever the order the views were recorded in; the reason is
\* 'frequently viewed together' when they fill the k places.
C11_TopCoviewedTiesById ==
    (Recommended /\ partners(ret.product_id) # <<>>) =>
      LET expected == Take(by_count_then_id(partners(ret.product_id)), ret.limit)
      IN  /\ Len(ret.product_ids) >= Len(expected)
          /\ SubSeq(ret.product_ids, 1, Len(expected)) = expected
          /\ Len(expected) = ret.limit => ret.reason = FrequentlyViewedTogether

\* C12 as stated: the list get_recommendations returns holds no product id twice.
C12_NoDuplicateRecommendation ==
    Recommended =>
      \A i, j \in 1..Len(ret.product_ids) :
        i # j => ret.product_ids[i] # ret.product_ids[j]

\* the categories (by position) of the stored product id that have a member other than id
contributing(id) ==
    LET categories == products_store[id].categories
    IN  {i \in 1..Len(categories) :
           Get(recommendation_engine.category_matrix, lower(categories[i]), {}) \ {id} # {}}

\* C13 as stated: when get_recommendations adds a product from the category fallback,
\* the reason is 'similar products in <category>' for the first of the product's
\* categories that contributed one, also when fewer than k are collected in total.
C13_ReasonNamesFirstCategory ==
    (/\ Recommended
     /\ ret.product_id \in DOMAIN products_store
     /\ Len(ret.product_ids) > Min(Len(partners(ret.product_id)), ret.limit)) =>
      LET categories == products_store[ret.product_id].categories
          first == CHOOSE i \in contributing(ret.product_id) :
                     \A j \in contributing(ret.product_id) : i <= j
      IN  /\ contributing(ret.product_id) # {}
          /\ ret.reason = SimilarProductsIn \o categories[first]

\* C14: the focus id is never in its own recommendations: no Counter of the co-view
\* matrix counts its own id, and no list get_recommendations(id, k) returns holds id.
C14_FocusNotRecommended ==
    /\ \A a \in DOMAIN recommendation_engine.view_matrix :
         \A k \in 1..Len(partners(a)) : partners(a)[k][1] # a
    /\ Recommended => ret.product_id \notin Range(ret.product_ids)

\* C14 witness: recommendations for P1 after a view of P1 whose session held P1 itself;
\* P1 is stored and in the set of one of its categories, and the fallback has run.
C14_Witness ==
    /\ Recommended
    /\ ret.product_id = "P1"
    /\ partners("P1") = << <<"P2", 2>> >>
    /\ ret.product_ids # <<>>
    /\ Len(ret.product_ids) < ret.limit
    /\ "P1" \in DOMAIN products_store
    /\ \E c \in DOMAIN recommendation_engine.category_matrix :
         "P1" \in recommendation_engine.category_matrix[c]

-----------------------------------------------------------------------------
(* Claims about the agreement of the engine's structures, checked under    *)
(* Spec.                                                                   *)

\* C15 as stated: the category index holds id under category c if and only if c is,
\* case-insensitively, a category of the product currently stored for id; no stale
\* entry remains after a re-index with other categories.
C15_CategoryIndexIsCurrent ==
    \A id \in ProductIds :
      \A c \in DOMAIN recommendation_engine.category_matrix
                 \cup UNION {category_labels(b) : b \in Catalog} :
        id \in Get(recommendation_engine.category_matrix, c, {})
          <=> (id \in DOMAIN products_store /\ c \in category_labels(products_store[id]))

\* C16 as stated: the ids of the store are the ids of the inverted index (the keys of
\* doc_lengths, total_docs being their number, so that the health report's
\* indexed_products equals its index_size); every stored id is accepted by the
\* existence filter, is in the set of each of its categories and in a price bucket; no
\* id absent from the store is in a posting set, a category set or a price bucket.
C16_StoreAndIndicesAgree ==
    LET stored == DOMAIN products_store
        ii == inverted_index
        re == recommendation_engine
    IN  /\ stored = DOMAIN ii.doc_lengths
        /\ ii.total_docs = Cardinality(DOMAIN ii.doc_lengths)
        /\ ret.op = "health_check" => ret.indexed_products = ret.index_size
        /\ \A id \in stored :
             /\ bloom_contains(bloom_filter, id) = {TRUE}
             /\ \A c \in category_labels(products_store[id]) :
                  c \in DOMAIN re.category_matrix /\ id \in re.category_matrix[c]
             /\ \E b \in DOMAIN re.price_ranges : id \in Range(re.price_ranges[b])
        /\ \A t \in DOMAIN ii.index : ii.index[t] \subseteq stored
        /\ \A c \in DOMAIN re.category_matrix : re.category_matrix[c] \subseteq stored
        /\ \A b \in DOMAIN re.price_ranges : Range(re.price_ranges[b]) \subseteq stored

\* the words of the trie: the paths of its terminal nodes
terminal_words == {w \in DOMAIN autocomplete_trie : autocomplete_trie[w].is_word}

\* C17 as stated: the terminal words of the trie are the title tokens, of any length,
\* and the lower-cased category labels of the products in the store; none belongs only
\* to a product version that a re-index has replaced.
C17_TrieAgreesWithStore ==
    terminal_words =
      UNION {Range(tokenize(products_store[id].title))
               \cup category_labels(products_store[id]) : id \in DOMAIN products_store}

\* C18 as stated: every product id ever passed to index_product is reported present by
\* the existence filter, and a recommendation request for it is never answered 404.
C18_NoFalseNegativeEver ==
    /\ \A id \in h_indexed.ever : bloom_contains(bloom_filter, id) = {TRUE}
    /\ (ret.op = "get_recommendations" /\ ret.product_id \in h_indexed.ever)
         => ret.status # 404

\* C19: a reset leaves total_docs = 0, no posting, doc_freq or doc_lengths entry, a trie
\* that is a non-terminal root, an empty co-view matrix, empty category and price
\* bucket maps, an empty existence filter, an empty store and empty analytics, that is
\* the state of a freshly started engine.
C19_ResetYieldsEmptyState ==
    ret.op = "clear_all_data" =>
      /\ inverted_index.total_docs = 0
      /\ DOMAIN inverted_index.index = {}
      /\ DOMAIN inverted_index.doc_freq = {}
      /\ DOMAIN inverted_index.doc_lengths = {}
      /\ DOMAIN autocomplete_trie = {<<>>}
      /\ autocomplete_trie[<<>>] = [children |-> <<>>, is_word |-> FALSE, frequency |-> 0]
      /\ DOMAIN recommendation_engine.view_matrix = {}
      /\ DOMAIN recommendation_engine.category_matrix = {}
      /\ DOMAIN recommendation_engine.price_ranges = {}
      /\ bloom_filter = NewBloomFilter
      /\ DOMAIN products_store = {}
      /\ DOMAIN search_analytics = {}

\* C19 witness: a reset of an engine that held a product.
C19_Witness ==
    /\ ret.op = "clear_all_data"
    /\ h_indexed.ever # {}

-----------------------------------------------------------------------------
(* The claim about a failing index_product, checked under SpecFault.       *)

\* the product of id is in every structure index_product fills
in_every_structure(id, store, ii, filter, re, trie) ==
    /\ id \in DOMAIN store
    /\ id \in DOMAIN ii.doc_lengths
    /\ ii.doc_lengths[id]
         = Len(document_tokens(search_text(store[id]), store[id].categories))
    /\ id \in filter.ids
    /\ \A c \in category_labels(store[id]) :
         c \in DOMAIN re.category_matrix /\ id \in re.category_matrix[c]
    /\ \E b \in DOMAIN re.price_ranges : id \in Range(re.price_ranges[b])
    /\ \A c \in category_labels(store[id]) : c \in DOMAIN trie /\ trie[c].is_word

\* C20 as stated: an index_product that answers 500 leaves the store, the inverted
\* index, the trie, the existence filter and the category and price indices either
\* all updated for the product or all as they were before the call.
C20_FailedIndexNotHalfUpdated ==
    [][(ret'.op = "index_product" /\ "status_code" \in DOMAIN ret'
          /\ ret'.status_code = 500) =>
         \/ /\ products_store' = products_store
            /\ inverted_index' = inverted_index
            /\ autocomplete_trie' = autocomplete_trie
            /\ bloom_filter'.ids = bloom_filter.ids
            /\ recommendation_engine' = recommendation_engine
         \/ in_every_structure(ret'.product_id, products_store', inverted_index',
                               bloom_filter', recommendation_engine',
                               autocomplete_trie')]_vars

-----------------------------------------------------------------------------
(* Claims about the answers of the search handlers, checked under Spec.    *)

\* C21 as stated: a search whose query is empty or only whitespace is rejected with
\* 400 BadRequest; it is not answered as a successful empty result.
C21_BlankQueryRejected ==
    (ret.op = "search_products" /\ strip_is_empty(ret.req.q))
      => ("status_code" \in DOMAIN ret /\ ret.status_code = 400)

\* C24 as stated: a recommendation request that passes the existence filter for an id
\* that was never indexed returns an empty list with an empty reason, also after a
\* view was recorded with that id as the focus.
C24_NeverIndexedGetsNothing ==
    (Recommended /\ ret.product_id \notin h_indexed.ever)
      => (ret.product_ids = <<>> /\ ret.reason = <<>>)

\* C28 as stated: a query that contains the literal category:<name> scores the
\* category:<name> postings, so that, when they fit in the limit, the search returns
\* the stored products that have the category, also when <name> is in no title or
\* description token.
C28_CategoryQueryReturnsCategory ==
    (Searched /\ ret.req.q = <<"c","a","t","e","g","o","r","y",":","s","h","o","e","s">>
       /\ ret.req.category = {} /\ ret.req.min_price = {} /\ ret.req.max_price = {})
      => LET having == {id \in DOMAIN products_store :
                          <<"s","h","o","e","s">> \in category_labels(products_store[id])}
         IN  Cardinality(having) <= ret.req.limit => having \subseteq result_ids

-----------------------------------------------------------------------------
(* The claim about the frequencies of the trie, checked under SpecTrie.    *)

\* the sum of h over the keys of S
RECURSIVE SumOver(_, _)
SumOver(h, S) ==
    IF S = {} THEN 0
    ELSE LET k == CHOOSE x \in S : TRUE IN h[k] + SumOver(h, S \ {k})

\* the words inserted since the last reset whose lower-case form is w
inserted_as(w) == {k \in DOMAIN h_inserted : lower(k) = w}

\* C26: the frequency of the node of w is the sum of the frequency arguments of the
\* inserts since the last reset whose lower-cased word is w, the node is terminal
\* exactly when there was such an insert, no non-terminal node has a frequency above
\* 0, and search_prefix never returns a word after one of a lower frequency, nor
\* leaves out a word in favour of one of a lower frequency.
C26_FrequencyIsSumOfInserts ==
    /\ \A w \in DOMAIN autocomplete_trie :
         /\ autocomplete_trie[w].frequency = SumOver(h_inserted, inserted_as(w))
         /\ autocomplete_trie[w].is_word <=> inserted_as(w) # {}
         /\ ~autocomplete_trie[w].is_word => autocomplete_trie[w].frequency = 0
    /\ \A k \in DOMAIN h_inserted : lower(k) \in DOMAIN autocomplete_trie
    /\ (ret.op = "search_prefix" /\ ret.prefix # <<>>) =>
         \A k \in 1..Len(ret.suggestions) :
           \A v \in words_below(lower(ret.prefix)) :
             autocomplete_trie[v].frequency > autocomplete_trie[ret.suggestions[k]].frequency
               => \E j \in 1..(k - 1) : ret.suggestions[j] = v

\* C26 witness: a search_prefix that returned a word inserted in two cases, whose node
\* sums both frequencies, from a trie with a non-terminal node.
C26_Witness ==
    /\ ret.op = "search_prefix"
    /\ Len(ret.suggestions) = 1
    /\ Cardinality(inserted_as(ret.suggestions[1])) = 2
    /\ autocomplete_trie[ret.suggestions[1]].frequency = 3
    /\ \E p \in DOMAIN autocomplete_trie : p # <<>> /\ ~autocomplete_trie[p].is_word

-----------------------------------------------------------------------------
(* The claim about the handlers that read, checked under Spec.             *)

\* the handlers that read
read_handlers == {"search_products", "autocomplete", "get_recommendations",
                  "get_search_analytics", "health_check"}

\* the count of query q in the analytics
searches_of(analytics, q) ==
    IF \E k \in 1..Len(analytics) : analytics[k][1] = q
    THEN analytics[CHOOSE k \in 1..Len(analytics) : analytics[k][1] = q][2]
    ELSE 0

\* the queries of the analytics
searched_queries(analytics) == {analytics[k][1] : k \in 1..Len(analytics)}

\* C29: search, autocomplete, get_recommendations, the analytics read and the health
\* read leave the store, the inverted index, the trie, the co-view matrix and the
\* category and price indices as they were, entry for entry; a search of a query that
\* is not blank adds exactly 1 to the analytics count of its lower-cased query and
\* changes no other count, and no other read changes the analytics.
C29_ReadsLeaveTheEngine ==
    [][ret'.op \in read_handlers =>
         /\ products_store' = products_store
         /\ inverted_index' = inverted_index
         /\ autocomplete_trie' = autocomplete_trie
         /\ recommendation_engine' = recommendation_engine
         /\ IF ret'.op = "search_products" /\ ~strip_is_empty(ret'.req.q)
            THEN /\ searched_queries(search_analytics')
                      = searched_queries(search_analytics) \cup {lower(ret'.req.q)}
                 /\ \A q \in searched_queries(search_analytics') :
                      searches_of(search_analytics', q)
                        = searches_of(search_analytics, q)
                            + (IF q = lower(ret'.req.q) THEN 1 ELSE 0)
            ELSE search_analytics' = search_analytics]_vars

\* C29 witness: a second search of a query in upper case, one of whose tokens has no
\* posting list, on an engine that holds a product.
C29_Witness ==
    /\ Searched
    /\ lower(ret.req.q) # ret.req.q
    /\ searches_of(search_analytics, lower(ret.req.q)) = 2
    /\ Range(tokenize(ret.req.q)) \ DOMAIN inverted_index.index # {}
    /\ DOMAIN products_store # {}

-----------------------------------------------------------------------------
(* The recommendation handlers on an engine that already holds a catalog:  *)
(* SpecRec starts after index_product of P2 and of P3, so that a view and  *)
(* a recommendation of a product with co-views and category neighbours fit *)
(* in MaxCalls calls.                                                      *)

\* the engine after index_product(product) on the engine e, the existence filter
\* having been filled or not: when bloom_filter.add raises, the store alone was written
index_product(e, product, filled) ==
    LET title_tokens == tokenize(product.title)
        added == bloom_add(e.bloom_filter, product.product_id, filled)
        stored == [e EXCEPT
                     !.bloom_filter = added.filter,
                     !.products_store =
                         [id \in DOMAIN e.products_store \cup {product.product_id} |->
                            IF id = product.product_id THEN product
                            ELSE e.products_store[id]],
                     !.h_indexed =
                         [ever |-> e.h_indexed.ever \cup {product.product_id},
                          since_reset |->
                              e.h_indexed.since_reset \cup {product.product_id}]]
    IN  IF added.raised THEN stored
        ELSE [stored EXCEPT
                !.inverted_index =
                    add_document(e.inverted_index, product.product_id,
                                 search_text(product), product.categories),
                !.autocomplete_trie =
                    insert_categories(insert_title_tokens(e.autocomplete_trie,
                                                          title_tokens, 1),
                                      product.categories, 1),
                !.recommendation_engine =
                    add_product_metadata(e.recommendation_engine, product.product_id,
                                         product.categories, product.price_cents),
                !.h_inserted =
                    InsertedAll(InsertedAll(e.h_inserted,
                                            SelectSeq(title_tokens,
                                                      LAMBDA t : Len(t) > 2), 1),
                                product.categories, 1)]

\* the engine at start-up
fresh_engine ==
    [products_store |-> EmptyFunction, bloom_filter |-> NewBloomFilter,
     inverted_index |-> NewInvertedIndex, autocomplete_trie |-> NewAutocompleteTrie,
     recommendation_engine |-> NewRecommendationEngine, search_analytics |-> <<>>,
     h_inserted |-> EmptyFunction, h_indexed |-> [ever |-> {}, since_reset |-> {}]]

\* the catalog SpecRec starts with: P2 in Shoes, P3 in Bags and SHOES
StartCatalog ==
    LET boots == CHOOSE b \in Catalog : b.title = BlueBoots
        go == CHOOSE b \in Catalog : b.title = GoTitle
    IN  << [product_id |-> "P2", title |-> boots.title, description |-> boots.description,
            categories |-> boots.categories, price_cents |-> boots.price_cents,
            stock |-> boots.stock],
           [product_id |-> "P3", title |-> go.title, description |-> go.description,
            categories |-> go.categories, price_cents |-> go.price_cents,
            stock |-> go.stock] >>

\* both calls answered "indexed"
catalog_engine ==
    index_product(index_product(fresh_engine, StartCatalog[1], FALSE), StartCatalog[2], FALSE)

\* the service after index_product of the products of StartCatalog; h_calls counts the
\* calls made after them
InitCatalog ==
    /\ inverted_index = catalog_engine.inverted_index
    /\ autocomplete_trie = catalog_engine.autocomplete_trie
    /\ bloom_filter = catalog_engine.bloom_filter
    /\ recommendation_engine = catalog_engine.recommendation_engine
    /\ products_store = catalog_engine.products_store
    /\ search_analytics = <<>>
    /\ ret = [op |-> "index_product", status |-> "indexed", product_id |-> "P3"]
    /\ h_calls = 0
    /\ h_log = <<>>
    /\ h_docs = EmptyFunction
    /\ h_inserted = catalog_engine.h_inserted
    /\ h_replaced = {}
    /\ h_indexed = catalog_engine.h_indexed
    /\ coroutines = <<>>
    /\ running = 0
    /\ InitNotifications

NextRec ==
    \/ IndexProduct
    \/ RecordProductView
    \/ GetRecommendations
    \/ ClearAllData

SpecRec == InitCatalog /\ [][NextRec]_vars

\* C23: get_recommendations(id, k) never returns more than k ids, whether they come
\* from the co-views only, from the category fallback only, or from co-views that one
\* or several categories completed.
C23_AtMostLimit ==
    Recommended => Len(ret.product_ids) <= ret.limit

\* the stored products other than id that share the category c with it
neighbours(id, c) == Get(recommendation_engine.category_matrix, c, {}) \ {id}

\* C23 witness: a stored product with two co-viewed partners, fewer than the limit 3,
\* every category of which holds two other products: the fallback made four
\* candidates and three were returned.
C23_Witness ==
    /\ Recommended
    /\ ret.limit = 3
    /\ Len(ret.product_ids) = 3
    /\ Len(partners(ret.product_id)) = 2
    /\ ret.product_id \in DOMAIN products_store
    /\ category_labels(products_store[ret.product_id]) # {}
    /\ \A c \in category_labels(products_store[ret.product_id]) :
         Cardinality(neighbours(ret.product_id, c)) = 2

\* the count of other_id in the co-view Counter of id, 0 when there is none
views_of(view_matrix, id, other_id) ==
    LET counter == Get(view_matrix, id, <<>>)
    IN  IF \E k \in 1..Len(counter) : counter[k][1] = other_id
        THEN counter[CHOOSE k \in 1..Len(counter) : counter[k][1] = other_id][2]
        ELSE 0

\* how many times id occurs in the session
occurrences(session_products, id) ==
    Cardinality({k \in 1..Len(session_products) : session_products[k] = id})

\* C25: record_view(a, S) adds to the co-view count of a and b, for every b of S other
\* than a, the number of times b occurs in S, and changes nothing else: it creates no
\* count of a with itself, no count in the row of a product other than a (b's row
\* gets no entry for a), and it leaves the category and price indices, the store, the
\* inverted index, the trie and the existence filter as they were.
C25_RecordViewCountsPartners ==
    [][ret'.op = "record_product_view" =>
         LET a == ret'.product_id
             S == ret'.session_products
             before == recommendation_engine.view_matrix
             after == recommendation_engine'.view_matrix
         IN  /\ \A b \in ProductIds \ {a} :
                  views_of(after, a, b) = views_of(before, a, b) + occurrences(S, b)
             /\ views_of(after, a, a) = 0
             /\ DOMAIN after \ {a} = DOMAIN before \ {a}
             /\ \A x \in DOMAIN before \ {a} : after[x] = before[x]
             /\ recommendation_engine'.category_matrix
                  = recommendation_engine.category_matrix
             /\ recommendation_engine'.price_ranges = recommendation_engine.price_ranges
             /\ products_store' = products_store
             /\ inverted_index' = inverted_index
             /\ autocomplete_trie' = autocomplete_trie
             /\ bloom_filter' = bloom_filter
             /\ search_analytics' = search_analytics]_vars

\* C25 witness: a view of P1 whose session holds P1 itself and P2 twice, after which
\* P1 and P2 have three co-views, on an engine that has co-views of another product.
C25_Witness ==
    /\ ret.op = "record_product_view"
    /\ ret.product_id = "P1"
    /\ ret.session_products = <<"P1", "P2", "P2">>
    /\ views_of(recommendation_engine.view_matrix, "P1", "P2") = 3
    /\ DOMAIN recommendation_engine.view_matrix \ {"P1"} # {}

-----------------------------------------------------------------------------
(* RecommendationEngine.add_product_metadata called on its own, with the   *)
(* prices at and next to every cutoff.                                     *)

Prices == {0, 4999, 5000, 9999, 10000, 19999, 20000, 49999, 50000}

AddProductMetadata ==
    /\ h_calls < MaxCalls
    /\ \E product_id \in ProductIds, price_cents \in Prices :
         /\ recommendation_engine' =
                add_product_metadata(recommendation_engine, product_id, <<Shoes>>,
                                     price_cents)
         /\ ret' = [op |-> "add_product_metadata", product_id |-> product_id,
                    price_cents |-> price_cents]
    /\ h_calls' = h_calls + 1
    /\ UNCHANGED <<loop_vars, notification_vars>>
    /\ UNCHANGED <<inverted_index, autocomplete_trie, bloom_filter, products_store,
                   search_analytics, h_inserted, h_replaced, h_indexed, index_vars>>

NextMetadata == AddProductMetadata

SpecMetadata == Init /\ [][NextMetadata]_vars

\* the bucket the claim gives a price: strict comparisons with the cutoffs 5000, 10000,
\* 20000 and 50000, a price at a cutoff going to the higher bucket
bucket_of(price_cents) ==
    CASE price_cents < 5000 -> "0-50"
      [] 5000 <= price_cents /\ price_cents < 10000 -> "50-100"
      [] 10000 <= price_cents /\ price_cents < 20000 -> "100-200"
      [] 20000 <= price_cents /\ price_cents < 50000 -> "200-500"
      [] 50000 <= price_cents -> "500+"

\* C27: add_product_metadata appends the product id to the one price bucket bucket_of
\* gives its price and leaves every other bucket as it was.
C27_OnePriceBucket ==
    [][ret'.op = "add_product_metadata" =>
         LET bucket == bucket_of(ret'.price_cents)
             before == recommendation_engine.price_ranges
             after == recommendation_engine'.price_ranges
         IN  /\ DOMAIN after = DOMAIN before \cup {bucket}
             /\ after[bucket] = Append(Get(before, bucket, <<>>), ret'.product_id)
             /\ \A b \in DOMAIN before \ {bucket} : after[b] = before[b]]_vars

\* C27 witness: a product of price 5000 appended to the bucket 50-100 of an engine whose
\* bucket 0-50 holds a product.
C27_Witness ==
    /\ ret.op = "add_product_metadata"
    /\ ret.price_cents = 5000
    /\ "50-100" \in DOMAIN recommendation_engine.price_ranges
    /\ recommendation_engine.price_ranges["50-100"][Len(recommendation_engine.price_ranges["50-100"])]
         = ret.product_id
    /\ "0-50" \in DOMAIN recommendation_engine.price_ranges
    /\ "500+" \in DOMAIN recommendation_engine.price_ranges

-----------------------------------------------------------------------------
(* The handlers of the search service as coroutines on one event loop.  A  *)
(* coroutine runs statement after statement; the loop can run another one  *)
(* only when the running coroutine returns or reaches an await.  SpecLoop  *)
(* runs the handlers this way, the Spec of the handlers as single steps    *)
(* being what it shows to be sound.                                        *)

\* the statements of a handler that end in an await.  The handlers of the search
\* service are `async def` and hold no await, whatever the handler.
await_points(op) == {}

\* the number of statements of a handler: index_product stores the product, adds it
\* to the filter, to the inverted index, to the trie and to the recommendation
\* engine; clear_all_data replaces the four engines and clears the two dicts;
\* search_products counts the query and then searches; the other handlers read or
\* write once
last_statement(op) ==
    CASE op = "index_product" -> 5
      [] op = "clear_all_data" -> 6
      [] op = "search_products" -> 2
      [] op = "autocomplete" -> 1
      [] op = "get_recommendations" -> 1
      [] op = "record_product_view" -> 1
      [] op = "get_search_analytics" -> 1
      [] op = "health_check" -> 1

\* the module-level state of the search service, as a record
engine_now ==
    [products_store |-> products_store, bloom_filter |-> bloom_filter,
     inverted_index |-> inverted_index, autocomplete_trie |-> autocomplete_trie,
     recommendation_engine |-> recommendation_engine,
     search_analytics |-> search_analytics,
     h_inserted |-> h_inserted, h_indexed |-> h_indexed]

\* what the pc-th statement of the coroutine c depends on besides the engine e:
\* whether the existence filter was filled, the order in which a set is iterated, the
\* answer of the filter for an id it does not hold
chances(c, pc, e) ==
    CASE c.op = "index_product" /\ pc = 2 -> [filled : BOOLEAN]
      [] c.op = "search_products" /\ pc = 2 ->
           [order : Orders(candidates(e.inverted_index, c.req.q))]
      [] c.op = "get_recommendations" ->
           [present : bloom_contains(e.bloom_filter, c.product_id),
            listings : category_listings(e.recommendation_engine, e.products_store,
                                         c.product_id)]
      [] OTHER -> {[filled |-> FALSE]}

\* the pc-th statement of the coroutine c raises: bloom_filter.add on a full filter
raises(c, pc, e, chance) ==
    /\ c.op = "index_product"
    /\ pc = 2
    /\ bloom_add(e.bloom_filter, c.product.product_id, chance.filled).raised

\* the coroutine c returns with its pc-th statement: the statement is its last one,
\* it raised, or it is the return of search_products for a blank query
returns(c, pc, e, chance) ==
    \/ pc = last_statement(c.op)
    \/ raises(c, pc, e, chance)
    \/ c.op = "search_products" /\ strip_is_empty(c.req.q)

\* the engine after the pc-th statement of the coroutine c ran on the engine e
statement(c, pc, e, chance) ==
    CASE c.op = "index_product" /\ pc = 1 ->
           [e EXCEPT !.products_store =
              [id \in DOMAIN e.products_store \cup {c.product.product_id} |->
                 IF id = c.product.product_id THEN c.product ELSE e.products_store[id]]]
      [] c.op = "index_product" /\ pc = 2 ->
           [e EXCEPT !.bloom_filter =
              bloom_add(e.bloom_filter, c.product.product_id, chance.filled).filter]
      [] c.op = "index_product" /\ pc = 3 ->
           [e EXCEPT !.inverted_index =
              add_document(e.inverted_index, c.product.product_id,
                           search_text(c.product), c.product.categories)]
      [] c.op = "index_product" /\ pc = 4 ->
           [e EXCEPT !.autocomplete_trie =
              insert_categories(insert_title_tokens(e.autocomplete_trie,
                                                    tokenize(c.product.title), 1),
                                c.product.categories, 1)]
      [] c.op = "index_product" /\ pc = 5 ->
           [e EXCEPT !.recommendation_engine =
              add_product_metadata(e.recommendation_engine, c.product.product_id,
                                   c.product.categories, c.product.price_cents)]
      [] c.op = "clear_all_data" /\ pc = 1 -> [e EXCEPT !.inverted_index = NewInvertedIndex]
      [] c.op = "clear_all_data" /\ pc = 2 ->
           [e EXCEPT !.autocomplete_trie = NewAutocompleteTrie]
      [] c.op = "clear_all_data" /\ pc = 3 -> [e EXCEPT !.bloom_filter = NewBloomFilter]
      [] c.op = "clear_all_data" /\ pc = 4 ->
           [e EXCEPT !.recommendation_engine = NewRecommendationEngine]
      [] c.op = "clear_all_data" /\ pc = 5 ->
           [e EXCEPT !.products_store = clear(e.products_store)]
      [] c.op = "clear_all_data" /\ pc = 6 ->
           [e EXCEPT !.search_analytics = clear(e.search_analytics)]
      [] c.op = "search_products" /\ pc = 1 ->
           IF strip_is_empty(c.req.q) THEN e
           ELSE [e EXCEPT !.search_analytics = increment(e.search_analytics,
                                                         lower(c.req.q))]
      [] c.op = "search_products" /\ pc = 2 ->
           [e EXCEPT !.inverted_index = index_after_search(e.inverted_index, c.req.q)]
      [] c.op = "record_product_view" ->
           IF c.product_id # "" /\ c.session_products # <<>>
           THEN [e EXCEPT !.recommendation_engine =
                   record_view(e.recommendation_engine, c.product_id,
                               c.session_products)]
           ELSE e
      [] OTHER -> e

\* what the coroutine c returns with its pc-th statement, run on the engine e;
\* started_from is history: the engine when the call was dispatched
reply(c, pc, e, chance) ==
    CASE c.op = "index_product" ->
           IF raises(c, pc, e, chance)
           THEN [op |-> "index_product", status_code |-> 500,
                 detail |-> "Indexing failed",
                 product_id |-> c.product.product_id, product |-> c.product,
                 started_from |-> c.started_from]
           ELSE [op |-> "index_product", status |-> "indexed",
                 product_id |-> c.product.product_id, product |-> c.product,
                 started_from |-> c.started_from]
      [] c.op = "clear_all_data" ->
           [op |-> "clear_all_data", status |-> "cleared", started_from |-> c.started_from]
      [] c.op = "search_products" ->
           LET results == IF strip_is_empty(c.req.q) THEN <<>>
                          ELSE search_products(e.products_store, e.inverted_index,
                                               c.req, chance.order)
           IN  [op |-> "search_products", req |-> c.req, results |-> results,
                total |-> Len(results), started_from |-> c.started_from]
      [] c.op = "autocomplete" ->
           [op |-> "autocomplete", q |-> c.q, limit |-> c.limit,
            suggestions |-> IF Len(strip(c.q)) < 2 THEN <<>>
                            ELSE search_prefix(e.autocomplete_trie, c.q, c.limit),
            started_from |-> c.started_from]
      [] c.op = "get_recommendations" ->
           IF ~chance.present
           THEN [op |-> "get_recommendations", product_id |-> c.product_id,
                 limit |-> c.limit, status |-> 404, started_from |-> c.started_from]
           ELSE LET r == get_recommendations(e.recommendation_engine, e.products_store,
                                             c.product_id, c.limit, chance.listings)
                IN  [op |-> "get_recommendations", product_id |-> c.product_id,
                     limit |-> c.limit, status |-> 200,
                     product_ids |-> r.recommendations, reason |-> r.reason,
                     started_from |-> c.started_from]
      [] c.op = "record_product_view" ->
           [op |-> "record_product_view", product_id |-> c.product_id,
            session_products |-> c.session_products, status |-> "recorded",
            started_from |-> c.started_from]
      [] c.op = "get_search_analytics" ->
           [op |-> "get_search_analytics",
            top_searches |->
                Take(StableSortDesc(e.search_analytics,
                                    [k \in 1..Len(e.search_analytics) |->
                                       e.search_analytics[k][2]]), TopSearches),
            total_searches |-> total_searches(e.search_analytics, 1),
            unique_queries |-> Len(e.search_analytics),
            indexed_products |-> Cardinality(DOMAIN e.products_store),
            started_from |-> c.started_from]
      [] c.op = "health_check" ->
           [op |-> "health_check", status |-> "healthy",
            indexed_products |-> Cardinality(DOMAIN e.products_store),
            index_size |-> e.inverted_index.total_docs,
            started_from |-> c.started_from]

\* the calls a client can make: index_product of a product of the catalog under any
\* id, and one or two requests of each of the other handlers
Calls ==
    {[op |-> "index_product",
      product |-> [product_id |-> product_id, title |-> body.title,
                   description |-> body.description, categories |-> body.categories,
                   price_cents |-> body.price_cents, stock |-> body.stock]] :
       product_id \in ProductIds, body \in Catalog}
    \cup {[op |-> "search_products", req |-> req] :
            req \in {r \in SearchRequests :
                       /\ r.q \in {<<"r","e","d">>, <<" ">>}
                       /\ r.limit = 3
                       /\ r.category = {} /\ r.min_price = {} /\ r.max_price = {}}}
    \cup {[op |-> "autocomplete", q |-> <<"s","h">>, limit |-> 3]}
    \cup {[op |-> "get_recommendations", product_id |-> "P1", limit |-> 3]}
    \cup {[op |-> "record_product_view", product_id |-> "P1",
           session_products |-> <<"P3", "P2">>]}
    \cup {[op |-> "get_search_analytics"], [op |-> "clear_all_data"],
          [op |-> "health_check"]}

\* the coroutine of a call: its fields, where it stands and the engine it starts from
coroutine_of(call) ==
    [k \in DOMAIN call \cup {"pc", "started_from"} |->
       CASE k = "pc" -> 0
         [] k = "started_from" -> engine_now
         [] OTHER -> call[k]]

\* the loop takes a request and starts its handler: it can when no coroutine holds it
Dispatch ==
    /\ h_calls < MaxCalls
    /\ running = 0
    /\ \E call \in Calls : coroutines' = Append(coroutines, coroutine_of(call))
    /\ running' = Len(coroutines) + 1
    /\ h_calls' = h_calls + 1
    /\ UNCHANGED <<inverted_index, autocomplete_trie, bloom_filter, recommendation_engine,
                   products_store, search_analytics, ret, h_inserted, h_replaced,
                   h_indexed, index_vars, notification_vars>>

\* the coroutine that holds the loop, or one that waits at an await when none does,
\* runs its next statement; a statement that raises ends the handler in its except
\* clause
Step ==
    /\ \E t \in 1..Len(coroutines) :
         /\ running \in {0, t}
         /\ LET c == coroutines[t]
                pc == c.pc + 1
            IN  \E chance \in chances(c, pc, engine_now) :
                  LET e == statement(c, pc, engine_now, chance)
                  IN  /\ products_store' = e.products_store
                      /\ bloom_filter' = e.bloom_filter
                      /\ inverted_index' = e.inverted_index
                      /\ autocomplete_trie' = e.autocomplete_trie
                      /\ recommendation_engine' = e.recommendation_engine
                      /\ search_analytics' = e.search_analytics
                      /\ IF returns(c, pc, engine_now, chance)
                         THEN /\ coroutines' = [k \in 1..(Len(coroutines) - 1) |->
                                                  IF k < t THEN coroutines[k]
                                                  ELSE coroutines[k + 1]]
                              /\ running' = 0
                              /\ ret' = reply(c, pc, engine_now, chance)
                         ELSE /\ coroutines' = [coroutines EXCEPT ![t].pc = pc]
                              /\ running' = IF pc \in await_points(c.op) THEN 0 ELSE t
                              /\ ret' = ret
    /\ UNCHANGED <<h_calls, h_inserted, h_replaced, h_indexed, index_vars,
                   notification_vars>>

NextLoop == Dispatch \/ Step

SpecLoop == Init /\ [][NextLoop]_vars

\* the fields of the engine that the handlers write
same_engine(e1, e2) ==
    /\ e1.products_store = e2.products_store
    /\ e1.bloom_filter = e2.bloom_filter
    /\ e1.inverted_index = e2.inverted_index
    /\ e1.autocomplete_trie = e2.autocomplete_trie
    /\ e1.recommendation_engine = e2.recommendation_engine
    /\ e1.search_analytics = e2.search_analytics

\* an engine in which no index_product and no reset is partly applied: the product
\* store and the inverted index hold the same ids
whole(e) ==
    /\ DOMAIN e.products_store = DOMAIN e.inverted_index.doc_lengths
    /\ e.inverted_index.total_docs = Cardinality(DOMAIN e.products_store)

\* the handlers that answer with what they read
reading_ops == {"search_products", "autocomplete", "get_recommendations",
                "get_search_analytics", "health_check"}

\* C22 as stated: a handler of the search service runs to its end without giving up
\* the loop: a coroutine that has run some of its statements holds the loop, so no
\* other handler starts or runs meanwhile; an index_product or a reset that returns
\* has turned the engine it started from into the engine of the whole handler; and no
\* read observes a partly applied index_product or reset: it starts from an engine
\* whose store and inverted index hold the same ids, and a health read reports as
\* many stored products as indexed documents.
C22_HandlersRunToCompletion ==
    /\ \A t \in 1..Len(coroutines) : running = t
    /\ ret.op = "index_product" /\ coroutines = <<>>
         => same_engine(engine_now,
                        index_product(ret.started_from, ret.product,
                                      "status_code" \in DOMAIN ret))
    /\ ret.op = "clear_all_data" /\ coroutines = <<>>
         => same_engine(engine_now, fresh_engine)
    /\ ret.op \in reading_ops => whole(ret.started_from)
    /\ ret.op = "health_check" =>
         /\ ret.indexed_products = ret.index_size
         /\ ret.indexed_products = Cardinality(DOMAIN ret.started_from.products_store)

-----------------------------------------------------------------------------
(* The notification service: send_notification and the process_* tasks it  *)
(* queues.  A task runs up to the await of its simulated delivery, waits    *)
(* there while other handlers and tasks run, and then records the outcome.  *)
(* Timestamps are left out, but for whether sent_at is set; message texts   *)
(* are left out, the outcome of a delivery being random in the code.        *)

EMAIL_TEMPLATES ==
    {"welcome", "order_confirmation", "order_shipped", "order_cancelled", "password_reset"}

SMS_TEMPLATES ==
    {"order_confirmation", "order_shipped", "order_cancelled", "promotional", "verification"}

\* the maxlen of the failed_notifications deque
FailedMaxlen == 1000

\* the types of the requests: the three the service knows, and one it does not
NotificationTypes == {"email", "sms", "push", "fax"}

\* the templates of the requests: one for email only, one for email and SMS, and one
\* that does not exist
Templates == {"welcome", "order_shipped", "missing"}

Recipient == "user@example.com"

\* generate_notification_id: a new id; the model numbers them
generate_notification_id(generated) == generated + 1

\* f"type_{notification.type}"
type_key(type) ==
    CASE type = "email" -> "type_email"
      [] type = "sms" -> "type_sms"
      [] type = "push" -> "type_push"
      [] type = "fax" -> "type_fax"

\* notification_stats[key] += 1 on the defaultdict(int)
count(stats, key) ==
    [k \in DOMAIN stats \cup {key} |-> Get(stats, k, 0) + (IF k = key THEN 1 ELSE 0)]

\* deque(maxlen=FailedMaxlen).append
deque_append(deque, item) ==
    IF Len(deque) = FailedMaxlen THEN Append(Tail(deque), item) ELSE Append(deque, item)

\* POST /api/notifications/send
SendNotification ==
    /\ notification_ids < MaxNotifications
    /\ \E type \in NotificationTypes, template \in Templates :
         LET notification_id == generate_notification_id(notification_ids)
             status == [notification_id |-> notification_id, type |-> type,
                        recipient |-> Recipient, status |-> "pending",
                        sent_at |-> "None", error_message |-> "None"]
         IN  /\ notification_ids' = notification_id
             /\ notifications_history' =
                    [id \in DOMAIN notifications_history \cup {notification_id} |->
                       IF id = notification_id THEN status ELSE notifications_history[id]]
             /\ notification_stats' = count(count(notification_stats, "total"),
                                            type_key(type))
             /\ IF type \in {"email", "sms", "push"}
                THEN /\ background_tasks' =
                            background_tasks \cup
                              {[notification_id |-> notification_id, type |-> type,
                                template |-> template, pc |-> "queued",
                                caller |-> "send_notification"]}
                     /\ ret' = [op |-> "send_notification", type |-> type,
                                template |-> template, status_code |-> 200,
                                success |-> TRUE, notification_id |-> notification_id,
                                status |-> "queued"]
                ELSE \* the HTTPException(400) raised in the try block is caught by its
                     \* `except Exception`, which raises the 500
                     /\ background_tasks' = background_tasks
                     /\ ret' = [op |-> "send_notification", type |-> type,
                                template |-> template, status_code |-> 500,
                                detail |-> "Notification failed"]
    /\ UNCHANGED <<failed_notifications, inverted_index, autocomplete_trie, bloom_filter,
                   recommendation_engine, products_store, search_analytics, h_calls,
                   h_inserted, h_replaced, h_indexed, index_vars, loop_vars>>

\* the except clause of a process_* task: the record is marked failed
mark_failed(history, notification_id, error_message) ==
    [history EXCEPT ![notification_id] =
        [@ EXCEPT !.status = "failed", !.error_message = error_message]]

\* whether the task finds its template; process_push_notification looks for none
template_found(task) ==
    CASE task.type = "email" -> task.template \in EMAIL_TEMPLATES
      [] task.type = "sms" -> task.template \in SMS_TEMPLATES
      [] task.type = "push" -> TRUE

\* process_*_notification from its start to the await of the simulated delivery, or to
\* its end when the template is missing.  Reading notifications_history[id] in the
\* except clause raises KeyError when the record is gone, and the task ends there.
ProcessStart ==
    /\ \E task \in background_tasks :
         /\ task.pc = "queued"
         /\ IF template_found(task)
            THEN /\ background_tasks' =
                        (background_tasks \ {task}) \cup {[task EXCEPT !.pc = "sending"]}
                 /\ UNCHANGED <<notifications_history, notification_stats>>
            ELSE /\ background_tasks' = background_tasks \ {task}
                 /\ IF task.notification_id \in DOMAIN notifications_history
                    THEN /\ notifications_history' =
                                mark_failed(notifications_history, task.notification_id,
                                            "template not found")
                         /\ notification_stats' = count(notification_stats, "failed")
                    ELSE UNCHANGED <<notifications_history, notification_stats>>
    /\ UNCHANGED <<failed_notifications, notification_ids, ret, inverted_index,
                   autocomplete_trie, bloom_filter, recommendation_engine, products_store,
                   search_analytics, h_calls, h_inserted, h_replaced, h_indexed,
                   index_vars, loop_vars>>

\* process_*_notification after the await when the record of the notification is
\* missing, as if the status were read with .get: the outcome is counted all the same
delivery_recorded_without_record(task, success, history, stats, failed) ==
    [notifications_history |->
         IF task.notification_id \notin DOMAIN history THEN history
         ELSE [history EXCEPT ![task.notification_id] =
                 [@ EXCEPT !.sent_at = "time",
                           !.status = IF success THEN "delivered" ELSE "failed",
                           !.error_message = IF success THEN @ ELSE "delivery failed"]],
     notification_stats |-> count(stats, IF success THEN "delivered" ELSE "failed"),
     failed_notifications |->
         IF success \/ task.type = "push" THEN failed
         ELSE deque_append(failed, [notification_id |-> task.notification_id,
                                    type |-> task.type, recipient |-> Recipient]),
     raised |-> FALSE]

\* process_*_notification after the await: the stores once the outcome of the delivery
\* is recorded.  notifications_history[notification_id] raises KeyError when the record
\* is missing, in the try block and again in the except clause, so the task ends with
\* the exception and no store is written.
delivery_recorded(task, success, history, stats, failed) ==
    IF task.notification_id \notin DOMAIN history
    THEN [notifications_history |-> history, notification_stats |-> stats,
          failed_notifications |-> failed, raised |-> TRUE]
    ELSE IF success
    THEN [notifications_history |->
              [history EXCEPT ![task.notification_id] =
                 [@ EXCEPT !.sent_at = "time", !.status = "delivered"]],
          notification_stats |-> count(stats, "delivered"),
          failed_notifications |-> failed, raised |-> FALSE]
    ELSE [notifications_history |->
              [history EXCEPT ![task.notification_id] =
                 [@ EXCEPT !.sent_at = "time", !.status = "failed",
                           !.error_message = "delivery failed"]],
          notification_stats |-> count(stats, "failed"),
          failed_notifications |->
              IF task.type = "push" THEN failed
              ELSE deque_append(failed, [notification_id |-> task.notification_id,
                                         type |-> task.type, recipient |-> Recipient]),
          raised |-> FALSE]

\* what send_test_notification answers once the process_* call it awaited is over
test_reply(task, raised, history) ==
    IF raised
    THEN [op |-> "send_test_notification", type |-> task.type, template |-> task.template,
          status_code |-> 500, detail |-> "Test failed"]
    ELSE [op |-> "send_test_notification", type |-> task.type, template |-> task.template,
          status_code |-> 200, success |-> TRUE, notification_id |-> task.notification_id,
          status |-> IF task.notification_id \in DOMAIN history
                     THEN history[task.notification_id].status ELSE "unknown"]

\* process_*_notification after the await: the delivery succeeded or failed, at random;
\* a call awaited by send_test_notification ends that handler too
ProcessFinish ==
    /\ \E task \in background_tasks, success \in BOOLEAN :
         /\ task.pc = "sending"
         /\ background_tasks' = background_tasks \ {task}
         /\ LET after == delivery_recorded(task, success, notifications_history,
                                           notification_stats, failed_notifications)
            IN  /\ notifications_history' = after.notifications_history
                /\ notification_stats' = after.notification_stats
                /\ failed_notifications' = after.failed_notifications
                /\ ret' = IF task.caller = "send_test_notification"
                          THEN test_reply(task, after.raised, after.notifications_history)
                          ELSE ret
    /\ UNCHANGED <<notification_ids, inverted_index, autocomplete_trie, bloom_filter,
                   recommendation_engine, products_store, search_analytics, h_calls,
                   h_inserted, h_replaced, h_indexed, index_vars, loop_vars>>

\* the requests of send_test_notification: an email with a template and one without,
\* an SMS whose template is an email template only, and a push, which the handler
\* does not process
TestRequests ==
    {[type |-> "email", template |-> "welcome"], [type |-> "email", template |-> "missing"],
     [type |-> "sms", template |-> "welcome"], [type |-> "push", template |-> "welcome"]}

\* POST /api/notifications/test, up to the await of the simulated delivery or to its
\* end: the handler calls process_*_notification itself, with a new id that has no
\* record.  With a missing template the except clause of process_* raises KeyError on
\* the missing record and the handler answers 500.
SendTestNotification ==
    /\ notification_ids < MaxNotifications
    /\ \E request \in TestRequests :
         LET notification_id == generate_notification_id(notification_ids)
             task == [notification_id |-> notification_id, type |-> request.type,
                      template |-> request.template, pc |-> "sending",
                      caller |-> "send_test_notification"]
         IN  /\ notification_ids' = notification_id
             /\ IF request.type \notin {"email", "sms"}
                THEN /\ ret' = test_reply(task, FALSE, notifications_history)
                     /\ UNCHANGED <<background_tasks, notifications_history,
                                     notification_stats>>
                ELSE IF template_found(task)
                THEN /\ background_tasks' = background_tasks \cup {task}
                     /\ UNCHANGED <<ret, notifications_history, notification_stats>>
                ELSE IF notification_id \in DOMAIN notifications_history
                THEN /\ notifications_history' =
                            mark_failed(notifications_history, notification_id,
                                        "template not found")
                     /\ notification_stats' = count(notification_stats, "failed")
                     /\ ret' = test_reply(task, FALSE, notifications_history')
                     /\ UNCHANGED background_tasks
                ELSE /\ ret' = test_reply(task, TRUE, notifications_history)
                     /\ UNCHANGED <<background_tasks, notifications_history,
                                     notification_stats>>
    /\ UNCHANGED <<failed_notifications, inverted_index, autocomplete_trie, bloom_filter,
                   recommendation_engine, products_store, search_analytics, h_calls,
                   h_inserted, h_replaced, h_indexed, index_vars, loop_vars>>

\* GET /api/notifications/analytics: the overview and the counts by type.  The rates
\* and the activity of the last 24 hours, which are computed from the same counters
\* and from the timestamps, are left out.
GetNotificationAnalytics ==
    /\ h_calls < MaxCalls
    /\ LET total == Get(notification_stats, "total", 0)
           delivered == Get(notification_stats, "delivered", 0)
           failed == Get(notification_stats, "failed", 0)
       IN  ret' = [op |-> "get_notification_analytics", total_notifications |-> total,
                   delivered |-> delivered, failed |-> failed,
                   pending |-> total - delivered - failed,
                   email |-> Get(notification_stats, "type_email", 0),
                   sms |-> Get(notification_stats, "type_sms", 0),
                   push |-> Get(notification_stats, "type_push", 0)]
    /\ h_calls' = h_calls + 1
    /\ UNCHANGED <<notification_vars, inverted_index, autocomplete_trie, bloom_filter,
                   recommendation_engine, products_store, search_analytics,
                   h_inserted, h_replaced, h_indexed, index_vars, loop_vars>>

\* DELETE /admin/clear of the notification service: the three stores are cleared, the
\* tasks in flight stay
ClearNotificationData ==
    /\ h_calls < MaxCalls
    /\ notifications_history' = clear(notifications_history)
    /\ failed_notifications' = <<>>
    /\ notification_stats' = clear(notification_stats)
    /\ ret' = [op |-> "clear_notification_data", success |-> TRUE]
    /\ h_calls' = h_calls + 1
    /\ UNCHANGED <<background_tasks, notification_ids, inverted_index, autocomplete_trie,
                   bloom_filter, recommendation_engine, products_store, search_analytics,
                   h_inserted, h_replaced, h_indexed, index_vars, loop_vars>>

NextNotify ==
    \/ SendNotification
    \/ SendTestNotification
    \/ ProcessStart
    \/ ProcessFinish
    \/ GetNotificationAnalytics
    \/ ClearNotificationData

SpecNotify == Init /\ [][NextNotify]_vars

\* The notification service with its coroutines scheduled fairly: the event loop runs
\* every task that is ready, so a queued process_* task starts and a delivery that is
\* awaited ends.  Requests are under no obligation to arrive.
SpecNotifyFair ==
    Init /\ [][NextNotify]_vars /\ WF_vars(ProcessStart) /\ WF_vars(ProcessFinish)

\* C30 as stated: send_notification with a type other than email, sms and push is
\* answered 400, not 500.
C30_UnsupportedTypeIs400 ==
    (ret.op = "send_notification" /\ ret.type \notin {"email", "sms", "push"})
      => ret.status_code = 400

-----------------------------------------------------------------------------
(* Claims about the life of a notification, checked under SpecNotifyFair   *)
(* and SpecNotify.                                                         *)

\* the ids generate_notification_id can have given
NotificationIds == 1..MaxNotifications

\* the record of id is stored and has the status
has_status(history, id, status) ==
    id \in DOMAIN history /\ history[id].status = status

\* the record of id is stored and delivered or failed
settled(history, id) ==
    has_status(history, id, "delivered") \/ has_status(history, id, "failed")

\* C31 as stated: with the background tasks scheduled fairly, every record stored with
\* the status pending becomes delivered or failed, unless an admin clear removes it;
\* and the status of a record that is delivered or failed never changes.
C31_PendingIsSettled ==
    /\ \A id \in NotificationIds :
         has_status(notifications_history, id, "pending")
           ~> (settled(notifications_history, id) \/ id \notin DOMAIN notifications_history)
    /\ [][\A id \in DOMAIN notifications_history :
            (settled(notifications_history, id) /\ id \in DOMAIN notifications_history')
              => notifications_history'[id].status = notifications_history[id].status]_vars

\* the value of a counter of notification_stats, 0 when it was never counted
stat(key) == Get(notification_stats, key, 0)

\* the stored records that have the status
records_with(status) ==
    {id \in DOMAIN notifications_history : notifications_history[id].status = status}

\* C32: under every interleaving of send_notification, the process_* tasks, which wait
\* during the simulated delivery, send_test_notification and the admin clear, the
\* counters satisfy delivered + failed <= total, no more notifications are counted
\* than were stored since the last clear, none is counted as delivered or as failed
\* more than once, and the pending count of the analytics, total - delivered -
\* failed, is never negative.
C32_CountersWithinTotal ==
    /\ stat("delivered") + stat("failed") <= stat("total")
    /\ stat("total") <= Cardinality(DOMAIN notifications_history)
    /\ stat("delivered") <= Cardinality(records_with("delivered"))
    /\ stat("failed") <= Cardinality(records_with("failed"))
    /\ ret.op = "get_notification_analytics" =>
         /\ ret.pending >= 0
         /\ ret.pending = ret.total_notifications - ret.delivered - ret.failed

\* C32 witness: an admin clear removed the record of a notification whose task still
\* waits for its delivery, and a notification sent after the clear has been counted.
C32_Witness ==
    /\ \E task \in background_tasks :
         /\ task.pc = "sending"
         /\ task.caller = "send_notification"
         /\ task.notification_id \notin DOMAIN notifications_history
    /\ stat("total") = 1
    /\ stat("delivered") + stat("failed") = 1

=============================================================================
